---------------------------- MODULE Spec2Model ----------------------------
(***************************************************************************)
(* State-machine model of the LTEm1 driver core: the Action Controller     *)
(* (src/src/actions.c) and the I/O Processor (src/src/iop.c).              *)
(*                                                                         *)
(* Text is modelled as sequences of one-character strings; a C pointer     *)
(* into a buffer is a 0-based offset.  The interrupt handler runs to       *)
(* completion with respect to normal-context code, but normal-context code *)
(* can be preempted between any two of its steps (pc).                     *)
(***************************************************************************)
EXTENDS Integers, Sequences, FiniteSets, TLC

(***************************************************************************)
(* Program constants.                                                      *)
(***************************************************************************)
ACTIONS_RETRY_MAX == 20
ACTIONS_RETRY_INTERVAL == 50
CME_PREABLE_SZ == 11

\* result domain (ltem1c.h, not part of the sources at hand)
ACTION_RESULT_PENDING == 0
ACTION_RESULT_SUCCESS == 200
ACTION_RESULT_TIMEOUT == 408
ACTION_RESULT_ERROR == 500

\* iopProcess_t tags (iop.h, not part of the sources at hand): socket ids are
\* 0..iopProcess_socketMax, every other tag is larger
iopProcess_command == 9
iopProcess_allocated == 254
iopProcess_void == 255

(***************************************************************************)
(* Bounds of the model.                                                    *)
(***************************************************************************)
\* value of the millisecond clock at which the model stops advancing it
MaxTime == 3
\* number of receive chunks the modem delivers in one behaviour
MaxRx == 2
\* number of API calls the application makes in one behaviour
MaxCalls == 3
\* number of pieces a response text handed to a completion parser is made of
MaxPieces == 3
\* capacity of the transmit ring (IOP_TX_BUFFER_SZ, scaled down)
TxBufferSz == 12
\* capacity of the bridge's hardware transmit FIFO
\* (SC16IS741A_FIFO_BUFFER_SZ, scaled down)
FifoSz == 4
\* number of receive control blocks (IOP_RXCTRLBLK_COUNT, scaled down)
RxCtrlBlkCount == 3
\* largest socket id (iopProcess_socketMax, scaled down)
SocketMax == 0
\* ACTION_DEFAULT_TIMEOUT_MILLIS, scaled down to the model's clock
DefaultTimeout == 2
\* IOP_RXCTRLBLK_PRIMBUF_IRDCAP, scaled down: the largest declared sized-read
\* length that needs no extension buffer
PrimBufIrdCap == 4
\* MQTT_URC_PREFIXSZ + MQTT_SUBTOPIC_MAXSZ + MQTT_MESSAGE_MAXSZ + 6, scaled down
MqttExtSz == 40

(***************************************************************************)
(* C strings.                                                              *)
(***************************************************************************)
NUL == "NUL"
\* the null pointer; any other pointer is an offset >= 0 into its buffer
NullPtr == -1
CR == "\r"
LF == "\n"

Min(a, b) == IF a < b THEN a ELSE b

\* the suffix of s that starts at 0-based offset off
From(s, off) == IF off >= Len(s) THEN <<>> ELSE SubSeq(s, off + 1, Len(s))

\* the first n elements of s
Take(s, n) == IF n >= Len(s) THEN s ELSE SubSeq(s, 1, n)

\* the C string stored in buf at offset off: the bytes up to the first NUL
RECURSIVE CStr(_, _)
CStr(buf, off) ==
    IF off >= Len(buf) \/ buf[off + 1] = NUL THEN <<>>
    ELSE <<buf[off + 1]>> \o CStr(buf, off + 1)

\* strstr: 0-based offset of the first occurrence of needle in text at or
\* after offset from, -1 when there is none
RECURSIVE StrStr(_, _, _)
StrStr(text, needle, from) ==
    IF from + Len(needle) > Len(text) THEN -1
    ELSE IF SubSeq(text, from + 1, from + Len(needle)) = needle THEN from
    ELSE StrStr(text, needle, from + 1)

IsSpace(c) == c \in {" ", "\t", "\n", "\r", "\f"}
Digits == <<"0", "1", "2", "3", "4", "5", "6", "7", "8", "9">>
IsDigit(c) == \E d \in 1..10 : Digits[d] = c
DigitVal(c) == (CHOOSE d \in 1..10 : Digits[d] = c) - 1

\* the value of the run of decimal digits of text at offset off
RECURSIVE DigitRun(_, _, _)
DigitRun(text, off, acc) ==
    IF off < Len(text) /\ IsDigit(text[off + 1])
    THEN DigitRun(text, off + 1, acc * 10 + DigitVal(text[off + 1]))
    ELSE acc

RECURSIVE SkipSpace(_, _)
SkipSpace(text, off) ==
    IF off < Len(text) /\ IsSpace(text[off + 1]) THEN SkipSpace(text, off + 1)
    ELSE off

\* strtol(text + off, NULL, 10): leading white space and one sign are
\* skipped, no digits gives 0
StrToL(text, off) ==
    LET p == SkipSpace(text, off)
        neg == p < Len(text) /\ text[p + 1] = "-"
        q == IF p < Len(text) /\ text[p + 1] \in {"-", "+"} THEN p + 1 ELSE p
        v == DigitRun(text, q, 0)
    IN IF neg THEN 0 - v ELSE v

\* the end pointer strtol stores: past the digits, or the start when there
\* are none
RECURSIVE SkipDigits(_, _)
SkipDigits(text, off) ==
    IF off < Len(text) /\ IsDigit(text[off + 1]) THEN SkipDigits(text, off + 1)
    ELSE off

StrToLEnd(text, off) ==
    LET p == SkipSpace(text, off)
        q == IF p < Len(text) /\ text[p + 1] \in {"-", "+"} THEN p + 1 ELSE p
    IN IF q < Len(text) /\ IsDigit(text[q + 1]) THEN SkipDigits(text, q) ELSE off

\* strncmp(pat, buf + off, Len(pat)) == 0, buf being zero filled past its text
PrefixAt(buf, off, pat) ==
    off + Len(pat) <= Len(buf) /\ SubSeq(buf, off + 1, off + Len(pat)) = pat

\* buf with data stored at offset off; bytes past the end of buf are not kept
WriteAt(buf, off, data) ==
    [i \in 1..Len(buf) |->
        IF i > off /\ i <= off + Len(data) THEN data[i - off] ELSE buf[i]]

\* n zero bytes
Zeros(n) == [i \in 1..n |-> NUL]

\* conversion to the 16-bit actionResult_t
U16(n) == n % 65536
\* conversion to uint8_t
U8(n) == n % 256

OK_COMPLETED_STRING == <<"O", "K", "\r", "\n">>
ERROR_COMPLETED_STRING == <<"E", "R", "R", "O", "R", "\r", "\n">>
FAIL_COMPLETED_STRING == <<"F", "A", "I", "L", "\r", "\n">>
CME_PREABLE == <<"+", "C", "M", "E", " ", "E", "R", "R", "O", "R", ":">>

(***************************************************************************)
(* Completion parsers.  An optional string argument is <<>> for NULL and   *)
(* <<s>> for the string s.                                                 *)
(***************************************************************************)
\* the last landmark met when stepping from one occurrence to the next one
\* that starts after its end
RECURSIVE LastLandmark(_, _, _)
LastLandmark(response, landmark, at) ==
    LET next == StrStr(response, landmark, at + Len(landmark))
    IN IF next = -1 THEN at ELSE LastLandmark(response, landmark, next)

\* a gap test that asks for one character more
GapStrict(searchPtr, gap, terminatorAt) == searchPtr + gap < terminatorAt

\* the gap test of the parser: the terminator starts at least gap characters
\* after the search start
GapSufficient(searchPtr, gap, terminatorAt) == searchPtr + gap <= terminatorAt

\* a fault preamble reported as the generic error
FaultCodeGeneric(response, cmeAt) == ACTION_RESULT_ERROR

\* return (strtol(cmeAt + CME_PREABLE_SZ, NULL, 10)), as an actionResult_t
FaultCode(response, cmeAt) == U16(StrToL(response, cmeAt + CME_PREABLE_SZ))

action_gapResultParser(response, landmark, landmarkReqd, gap, terminator) ==
    LET first == IF landmark = <<>> THEN -1 ELSE StrStr(response, landmark[1], 0)
        landmarkAt == IF first = -1 THEN -1
                      ELSE LastLandmark(response, landmark[1], first)
        searchPtr == IF landmarkAt = -1 THEN 0 ELSE landmarkAt + Len(landmark[1])
        okAt == StrStr(response, OK_COMPLETED_STRING, searchPtr)
        cmeAt == StrStr(response, CME_PREABLE, searchPtr)
        errAt == StrStr(response, ERROR_COMPLETED_STRING, searchPtr)
        failAt == StrStr(response, FAIL_COMPLETED_STRING, searchPtr)
        Finish(terminatorAt) ==
            IF terminatorAt # -1 /\ GapSufficient(searchPtr, gap, terminatorAt)
            THEN ACTION_RESULT_SUCCESS
            ELSE IF terminatorAt # -1 THEN ACTION_RESULT_ERROR
            ELSE ACTION_RESULT_PENDING
    IN IF landmark # <<>> /\ landmarkReqd /\ first = -1 THEN ACTION_RESULT_PENDING
       ELSE IF terminator # <<>>
            THEN Finish(StrStr(response, terminator[1], searchPtr))
       ELSE IF okAt # -1 THEN Finish(okAt)
       ELSE IF cmeAt # -1 THEN FaultCode(response, cmeAt)
       ELSE IF errAt # -1 THEN ACTION_RESULT_ERROR
       ELSE IF failAt # -1 THEN ACTION_RESULT_ERROR
       ELSE ACTION_RESULT_PENDING

\* the byte at offset off of a zero-filled buffer that holds text
CharAt(text, off) == IF off < Len(text) THEN text[off + 1] ELSE NUL

\* strchr(text + from, c): 0-based offset of the first c at or after offset
\* from, NullPtr when there is none
RECURSIVE StrChr(_, _, _)
StrChr(text, c, from) ==
    IF from >= Len(text) THEN NullPtr
    ELSE IF text[from + 1] = c THEN from
    ELSE StrChr(text, c, from + 1)

\* while (delimitersFound < (minTokens - 1) && *next != '\0')
\*     { next = strchr(next + 1, delim); delimitersFound++; }
\* yields the count and whether the loop trapped.  After a strchr that found
\* nothing the loop test reads through the null pointer: nd is what the
\* build makes of it, a trap, a zero byte, or a non-zero byte, after which
\* the loop goes on over whatever memory follows address 0 and is taken to
\* run the count up.
RECURSIVE TokenScan(_, _, _, _, _, _)
TokenScan(response, delim, need, next, found, nd) ==
    IF found >= need THEN [found |-> found, f |-> "none"]
    ELSE IF next = NullPtr
         THEN IF nd = "trap" THEN [found |-> found, f |-> "hardfault"]
              ELSE IF nd = "zero" THEN [found |-> found, f |-> "none"]
              ELSE [found |-> need, f |-> "none"]
    ELSE IF CharAt(response, next) = NUL THEN [found |-> found, f |-> "none"]
    ELSE TokenScan(response, delim, need, StrChr(response, delim, next + 1),
                   found + 1, nd)

\* the tail of action_tokenResultParser: the extended fault code, or Pending
TokenFault(response) ==
    IF StrStr(response, CME_PREABLE, 0) # -1
    THEN FaultCode(response, StrStr(response, CME_PREABLE, 0))
    ELSE ACTION_RESULT_PENDING

\* action_tokenResultParser with the outcome scan of its delimiter loop
TokenScanned(response, minTokens, scan) ==
    IF scan.f # "none" THEN [r |-> ACTION_RESULT_PENDING, f |-> scan.f]
    ELSE IF scan.found >= minTokens - 1
         THEN [r |-> ACTION_RESULT_SUCCESS, f |-> "none"]
    ELSE [r |-> TokenFault(response), f |-> "none"]

\* yields the value returned (r) and whether the call trapped (f)
action_tokenResultParser(response, landmark, delim, minTokens, nd) ==
    IF StrStr(response, landmark, 0) = -1
    THEN [r |-> TokenFault(response), f |-> "none"]
    ELSE TokenScanned(response, minTokens,
            TokenScan(response, delim, minTokens - 1,
                      LastLandmark(response, landmark,
                                   StrStr(response, landmark, 0))
                          + Len(landmark) + 1,
                      0, nd))

action_okResultParser(response) ==
    action_gapResultParser(response, <<>>, FALSE, 0, <<>>)

\* the "> " prompt parser used for "enter data then send" exchanges
iop_txDataPromptParser(response) ==
    IF StrStr(response, <<">", " ">>, 0) # -1 THEN ACTION_RESULT_SUCCESS
    ELSE ACTION_RESULT_PENDING


(***************************************************************************)
(* State.                                                                  *)
(***************************************************************************)
VARIABLES
    action,         \* the action_t that g_ltem1->action points at
    actionPtr,      \* g_ltem1->action: "valid" or "null"
    resp,           \* the caller's response buffer, the result window
    iop,            \* the iop_t: transmit ring, receive control blocks, cursors
    sockets,        \* g_ltem1->protocols->sockets[s].hasData
    qbgReadyState,  \* g_ltem1->qbgReadyState
    hwTx,           \* bytes in the bridge's hardware transmit FIFO
    now,            \* timing_millis()
    fault,          \* "none", "fault" (ltem1_faultHandler ran) or "hardfault"
    pc,             \* position of the normal-context code
    call,           \* arguments and locals of the API call in progress
    ret,            \* the API call that returned last and its value
    rxCount,        \* chunks received so far
    calls,          \* API calls the application has made so far
    grants,         \* history: tryInvoke calls that returned true since the
                    \* lock was last released by getResult or cancel
    wire            \* history: the chunks read from the bridge in a run of
                    \* the data reassembly, oldest first

vars == <<action, actionPtr, resp, iop, sockets, qbgReadyState, hwTx, now,
          fault, pc, call, ret, rxCount, calls, grants, wire>>

Sockets == 0..SocketMax
Slots == 0..(RxCtrlBlkCount - 1)

\* a calloc'ed action_t
ActionZero ==
    [cmdStr |-> <<>>, cmdBrief |-> <<>>, resultHead |-> NullPtr,
     resultTail |-> NullPtr,
     resultSz |-> 0, resultCode |-> 0, invokedAt |-> 0, timeoutMillis |-> 0,
     cmdCompleteParser_func |-> "NULL", irdPending |-> 0]

\* the state the C functions work on, as one record
St == [a |-> action, ap |-> actionPtr, resp |-> resp, io |-> iop,
       sock |-> sockets, rdy |-> qbgReadyState, hw |-> hwTx, f |-> fault]

Commit(s) ==
    /\ action' = s.a
    /\ actionPtr' = s.ap
    /\ resp' = s.resp
    /\ iop' = s.io
    /\ sockets' = s.sock
    /\ qbgReadyState' = s.rdy
    /\ hwTx' = s.hw
    /\ fault' = s.f

\* ltem1_faultHandler: the process ends
FaultHandler(s) == [s EXCEPT !.f = "fault"]
\* a dereference of g_ltem1->action while it is NULL that the build traps
HardFault(s) == [s EXCEPT !.f = "hardfault"]
Running == fault = "none"

(***************************************************************************)
(* Transmit path.                                                          *)
(***************************************************************************)
\* txPut: cbuf_push byte by byte until the ring is full; yields the ring
TxPut(txBuf, data) == txBuf \o Take(data, TxBufferSz - Len(txBuf))

\* txSendChunk: starts a transmit flow only if no bytes are in flight
TxSendChunk(s) ==
    LET txAvail == FifoSz - Len(s.hw)
    IN IF txAvail = FifoSz
       THEN [s EXCEPT !.hw = Take(s.io.txBuf, txAvail),
                      !.io.txBuf = From(s.io.txBuf, txAvail)]
       ELSE s

\* a send that returns although the ring took only a part of the data
iop_txSendLossy(s, sendData, deferSend) ==
    IF ~deferSend THEN TxSendChunk([s EXCEPT !.io.txBuf = TxPut(@, sendData)])
    ELSE [s EXCEPT !.io.txBuf = TxPut(@, sendData)]

iop_txSend(s, sendData, deferSend) ==
    LET queuedSz == Min(Len(sendData), TxBufferSz - Len(s.io.txBuf))
        s1 == [s EXCEPT !.io.txBuf = TxPut(@, sendData)]
    IN IF queuedSz = Len(sendData)
       THEN IF ~deferSend THEN TxSendChunk(s1) ELSE s1
       ELSE FaultHandler(s1)

(***************************************************************************)
(* Action controller.                                                      *)
(***************************************************************************)
\* the byte array cmdStr with its trailing zero bytes left out
SetFirst(str, c) ==
    IF Len(str) <= 1 THEN (IF c = NUL THEN <<>> ELSE <<c>>)
    ELSE [str EXCEPT ![1] = c]

\* cmdStr[0] != NULL
IsLocked(a) == a.cmdStr # <<>> /\ a.cmdStr[1] # NUL

action_reset(s) ==
    LET s1 == IF s.ap = "null" THEN [s EXCEPT !.ap = "valid", !.a = ActionZero]
              ELSE s
    IN [s1 EXCEPT !.a.cmdStr = <<>>,
                  !.a.resultHead = NullPtr,
                  !.a.resultTail = NullPtr,
                  !.a.resultCode = ACTION_RESULT_PENDING,
                  !.a.invokedAt = 0,
                  !.a.irdPending = iopProcess_void]

\* tryActionLock, last statement: cmdStr[0] = '*'
LockSet(s) == [s EXCEPT !.a.cmdStr = SetFirst(@, "*")]

\* action_tryInvoke: strncpy of the command, time stamp, strcat of the CR
InvokeCopy(s, cmdStr) ==
    [s EXCEPT !.a.cmdStr = cmdStr \o <<CR>>, !.a.invokedAt = now]

\* action_tryInvoke: iop_txSend(cmdStr, strlen(cmdStr))
InvokeSend(s) == iop_txSend(s, CStr(s.a.cmdStr, 0), FALSE)

\* action_tryInvoke(cmdStr, false) run without preemption, as the interrupt
\* handler runs it; yields the new state and the value returned.  With
\* g_ltem1->action NULL the test of cmdStr[0] reads through a null pointer:
\* nd is what the build makes of it ("trap", or the byte read as "zero" or
\* "nonzero", a store through the pointer being lost).
TryInvokeNoRetry(s, cmdStr, nd) ==
    IF s.ap = "null" /\ nd = "trap" THEN [s |-> HardFault(s), r |-> FALSE]
    ELSE IF s.ap = "null" /\ nd = "nonzero" THEN [s |-> s, r |-> FALSE]
    ELSE IF s.ap = "valid" /\ IsLocked(s.a) THEN [s |-> s, r |-> FALSE]
    ELSE [s |-> InvokeSend(InvokeCopy(
                    action_reset(IF s.ap = "valid" THEN LockSet(s) ELSE s),
                    cmdStr)),
          r |-> TRUE]

(***************************************************************************)
(* Receive control blocks.                                                 *)
(***************************************************************************)
\* a calloc'ed iopRxCtrlBlock_t after iop_create.  extsnLive is the heap as
\* far as the block is concerned: the extension buffers calloc'ed for it and
\* not freed
CtrlBlkZero ==
    [process |-> iopProcess_void, primBuf |-> <<>>, primDataSz |-> 0,
     dataReady |-> FALSE, extsnBufHead |-> NullPtr, extsnBufTail |-> NullPtr,
     extsnBuf |-> <<>>, primBufData |-> NullPtr, rmtHostInData |-> FALSE,
     extsnLive |-> 0]

\* iop_create
IopInit ==
    [txBuf |-> <<>>,
     rxCtrlBlks |-> [i \in Slots |-> CtrlBlkZero],
     rxHead |-> 0, rxTail |-> 0, cmdHead |-> 0, cmdTail |-> 0,
     socketHead |-> [k \in Sockets |-> 0],
     socketTail |-> [k \in Sockets |-> 0],
     protoDataMode |-> "idle",
     protoDataSocket |-> iopProcess_void,
     protoDataBytes |-> 0,
     protoDataRxCtrlBlk |-> NullPtr,
     urcStateMsg |-> <<>>]

\* IOP_RXCTRLBLK_ADVINDEX
AdvIndex(i) == IF i + 1 = RxCtrlBlkCount THEN 0 ELSE i + 1

\* IOP_RXCTRLBLK_ISOCCUPIED
IsOccupied(io, i) == io.rxCtrlBlks[i].process # iopProcess_void

rxResetCtrlBlock(io, bufIndx) ==
    [io EXCEPT !.rxCtrlBlks[bufIndx].process = iopProcess_void,
               !.rxCtrlBlks[bufIndx].primBuf = <<>>,
               !.rxCtrlBlks[bufIndx].extsnBufHead = NullPtr,
               !.rxCtrlBlks[bufIndx].extsnBufTail =
                   IF io.rxCtrlBlks[bufIndx].extsnBufHead # NullPtr
                   THEN NullPtr ELSE @,
               !.rxCtrlBlks[bufIndx].extsnBuf = <<>>,
               !.rxCtrlBlks[bufIndx].extsnLive =
                   IF io.rxCtrlBlks[bufIndx].extsnBufHead # NullPtr
                   THEN @ - 1 ELSE @,
               !.rxCtrlBlks[bufIndx].dataReady = FALSE]

\* a scan that takes the block at rxHead when it comes back to it
RECURSIVE ScanFreeWraps(_, _)
ScanFreeWraps(io, bufIndx) ==
    LET next == AdvIndex(bufIndx)
    IN IF next = io.rxHead THEN next
       ELSE IF IsOccupied(io, next) THEN ScanFreeWraps(io, next)
       ELSE next

\* the first unoccupied block after rxHead in ring order, NullPtr when the
\* scan comes back to rxHead
RECURSIVE ScanFree(_, _)
ScanFree(io, bufIndx) ==
    LET next == AdvIndex(bufIndx)
    IN IF next = io.rxHead THEN NullPtr
       ELSE IF IsOccupied(io, next) THEN ScanFree(io, next)
       ELSE next

\* the end of rxOpenCtrlBlock, the scan having stopped at bufIndx
OpenCtrlBlockAt(s, bufIndx) ==
    IF bufIndx = NullPtr THEN FaultHandler(s)
    ELSE [s EXCEPT !.io.rxCtrlBlks[bufIndx].process = iopProcess_allocated,
                   !.io.rxHead = bufIndx]

\* rxOpenCtrlBlock: yields the state; the block opened is its rxHead
rxOpenCtrlBlock(s) == OpenCtrlBlockAt(s, ScanFree(s.io, s.io.rxHead))

\* iop_recvDoWork: rxTail catches up with rxHead, flagging sockets with data
RECURSIVE iop_recvDoWork(_)
iop_recvDoWork(s) ==
    IF s.io.rxTail = s.io.rxHead THEN s
    ELSE LET tail == AdvIndex(s.io.rxTail)
             blk == s.io.rxCtrlBlks[tail]
             s1 == [s EXCEPT !.io.rxTail = tail]
         IN iop_recvDoWork(
                IF blk.dataReady /\ blk.process <= SocketMax
                THEN [s1 EXCEPT !.sock[blk.process] = TRUE]
                ELSE s1)


(***************************************************************************)
(* Interrupt-context classification.                                       *)
(***************************************************************************)
QIRD_HDR == <<"+", "Q", "I", "R", "D", ":", " ">>
QSSLRECV_HDR == <<"+", "Q", "S", "S", "L", "R", "E", "C", "V", ":", " ">>
QMTRECV_HDR == <<"+", "Q", "M", "T", "R", "E", "C", "V", ":", " ">>
URC_IPRECV_HDR == <<"+", "Q", "I", "U", "R", "C", ":", " ", "\"", "r", "e", "c", "v">>
URC_SSLRECV_HDR ==
    <<"+", "Q", "S", "S", "L", "U", "R", "C", ":", " ", "\"", "r", "e", "c", "v">>
QIURC_HDR == <<"+", "Q", "I", "U", "R", "C", ":", " ">>
APPRDY_BANNER == <<"A", "P", "P", " ", "R", "D", "Y", "\r", "\n">>
\* QBG_APPREADY_MILLISMAX, scaled to the model's clock
QBG_APPREADY_MILLISMAX == 1
\* ASCII_sMQTTTERM
MQTT_TERM == <<"\"", "\r", "\n">>
\* "AT+QIRD=%d"
IrdCmd(socketId) ==
    <<"A", "T", "+", "Q", "I", "R", "D", "=", Digits[socketId + 1]>>

\* rxConfigureIrdBuffer: yields the block
rxConfigureIrdBuffer(blk, dataSzAt) ==
    LET dataLen == U16(StrToL(blk.primBuf, dataSzAt))
        b1 == [blk EXCEPT !.primBufData = StrToLEnd(blk.primBuf, dataSzAt),
                          !.primDataSz = dataLen]
    IN IF dataLen > PrimBufIrdCap
       THEN [b1 EXCEPT !.extsnBufHead = 0,
                       !.extsnBuf = Zeros(dataLen),
                       !.extsnLive = @ + 1,
                       !.extsnBufTail = dataLen]
       ELSE b1

\* requestProtoData
requestProtoData(s, socketId, nd) ==
    TryInvokeNoRetry([s EXCEPT !.io.protoDataSocket = socketId],
                     IrdCmd(socketId), nd).s

\* the unsolicited "recv" notice of rxParseExtended, after requestProtoData
\* left state s1: the socket's tail is recorded and the block is reset
RecvNoticeDone(s1, rxIndx, socketId) ==
    [s1 EXCEPT !.io = rxResetCtrlBlock(
                          IF socketId \in Sockets
                          THEN [s1.io EXCEPT !.socketTail[socketId] = rxIndx]
                          ELSE s1.io,
                          rxIndx)]

\* the unsolicited "recv" notice of rxParseExtended, for either header
RecvNotice(s, rxIndx, socketId, nd) ==
    RecvNoticeDone(requestProtoData(s, socketId, nd), rxIndx, socketId)

\* a dispatch that takes a second banner for a restart of the modem
ParseExtendedRelatch(s, rxIndx, primBuf, nd) ==
    IF PrefixAt(primBuf, 2, APPRDY_BANNER)
    THEN [s EXCEPT !.rdy = IF @ = "appReady" THEN "powerOn" ELSE "appReady",
                   !.io.rxCtrlBlks[rxIndx].process = iopProcess_void]
    ELSE [s EXCEPT !.io.cmdHead = rxIndx,
                   !.io.rxCtrlBlks[rxIndx].process = iopProcess_command]

\* a dispatch that stores a status message over the one in the mailbox
ParseExtendedOverwrites(s, rxIndx, primBuf, nd) ==
    IF PrefixAt(primBuf, 2, QIURC_HDR) /\ ~PrefixAt(primBuf, 2, URC_IPRECV_HDR)
    THEN [s EXCEPT !.io.urcStateMsg = From(primBuf, Len(QIURC_HDR)),
                   !.io.rxCtrlBlks[rxIndx].process = iopProcess_void]
    ELSE [s EXCEPT !.io.cmdHead = rxIndx,
                   !.io.rxCtrlBlks[rxIndx].process = iopProcess_command]

\* rxParseExtended on the text primBuf of block rxIndx
ParseExtended(s, rxIndx, primBuf, nd) ==
    IF PrefixAt(primBuf, 2, URC_IPRECV_HDR) \/ PrefixAt(primBuf, 2, URC_SSLRECV_HDR)
    THEN RecvNotice(s, rxIndx,
                    U8(StrToL(primBuf, IF PrefixAt(primBuf, 2, URC_IPRECV_HDR)
                                       THEN Len(URC_IPRECV_HDR)
                                       ELSE Len(URC_SSLRECV_HDR))),
                    nd)
    ELSE IF PrefixAt(primBuf, 2, QIURC_HDR)
    THEN IF s.io.urcStateMsg # <<>>
         THEN FaultHandler(s)
         ELSE [s EXCEPT !.io.urcStateMsg = From(primBuf, Len(QIURC_HDR)),
                        !.io.rxCtrlBlks[rxIndx].process = iopProcess_void]
    ELSE IF s.rdy # "appReady" /\ PrefixAt(primBuf, 2, APPRDY_BANNER)
    THEN [s EXCEPT !.rdy = "appReady",
                   !.io.rxCtrlBlks[rxIndx].process = iopProcess_void]
    ELSE [s EXCEPT !.io.cmdHead = rxIndx,
                   !.io.rxCtrlBlks[rxIndx].process = iopProcess_command]

rxParseExtended(s, rxIndx, nd) ==
    ParseExtended(s, rxIndx, s.io.rxCtrlBlks[rxIndx].primBuf, nd)

\* action->cmdBrief[0] = NULL in rxParseImmediate
ClearCmdBrief(s, nd) ==
    IF s.ap = "valid" THEN [s EXCEPT !.a.cmdBrief = SetFirst(@, NUL)]
    ELSE IF nd = "trap" THEN HardFault(s)
    ELSE s

\* the size of the header the sized-read branch skips
IrdHdrSz(primBuf) ==
    IF Len(primBuf) > 4 /\ primBuf[5] = "I" THEN Len(QIRD_HDR)
    ELSE Len(QSSLRECV_HDR)

\* a sized-read branch that knows no empty reply
IrdConfiguredNoSentinel(s0, rxIndx, blk1, pds) ==
    [s |-> [s0 EXCEPT
              !.io.rxCtrlBlks[rxIndx] =
                  [blk1 EXCEPT !.primBufData = @ + 2,
                               !.process = pds,
                               !.dataReady = (blk1.extsnBufHead = NullPtr)],
              !.io.protoDataMode =
                  IF blk1.extsnBufHead = NullPtr THEN "idle" ELSE "irdBytes",
              !.io.socketHead =
                  IF pds \in Sockets THEN [@ EXCEPT ![pds] = rxIndx] ELSE @],
     done |-> FALSE]

\* the sized-read branch once rxConfigureIrdBuffer has made blk1 of the block
IrdConfigured(s0, rxIndx, blk1, pds) ==
    IF blk1.primDataSz = 0
    THEN [s |-> [s0 EXCEPT !.io.protoDataMode = "idle",
                           !.io.protoDataSocket = iopProcess_void,
                           !.io.rxCtrlBlks[rxIndx] =
                               [blk1 EXCEPT !.process = iopProcess_void]],
          done |-> TRUE]
    ELSE [s |-> [s0 EXCEPT
                   !.io.rxCtrlBlks[rxIndx] =
                       [blk1 EXCEPT
                          !.rmtHostInData =
                              blk1.primBufData < Len(blk1.primBuf)
                              /\ blk1.primBuf[blk1.primBufData + 1] = ",",
                          !.primBufData = @ + 2,
                          !.process = pds,
                          !.dataReady = (blk1.extsnBufHead = NullPtr)],
                   !.io.protoDataMode =
                       IF blk1.extsnBufHead = NullPtr THEN "idle" ELSE "irdBytes",
                   !.io.protoDataBytes =
                       IF blk1.extsnBufHead = NullPtr THEN @ ELSE blk1.primDataSz,
                   !.io.protoDataRxCtrlBlk =
                       IF blk1.extsnBufHead = NullPtr THEN @ ELSE rxIndx,
                   !.io.socketHead =
                       IF pds \in Sockets THEN [@ EXCEPT ![pds] = rxIndx] ELSE @],
          done |-> FALSE]

\* the sized-read branch after the store to cmdBrief left state s0
IrdCleared(s0, rxIndx, blk0) ==
    IF s0.f # "none" THEN [s |-> s0, done |-> TRUE]
    ELSE IrdConfigured(s0, rxIndx,
                       rxConfigureIrdBuffer(blk0, IrdHdrSz(blk0.primBuf) + 2),
                       s0.io.protoDataSocket)

\* the "+QIRD: " / "+QSSLRECV: " branch of rxParseImmediate; yields the
\* state and whether the function returns before rxParseExtended
IrdReply(s, rxIndx, nd) ==
    IrdCleared(ClearCmdBrief(s, nd), rxIndx, s.io.rxCtrlBlks[rxIndx])

\* the "+QMTRECV: " branch of rxParseImmediate on block blk
MqttRecvOn(s, rxIndx, blk, differs) ==
    [s EXCEPT !.io.rxCtrlBlks[rxIndx].extsnBufHead = 0,
              !.io.rxCtrlBlks[rxIndx].extsnBuf = Zeros(MqttExtSz),
              !.io.rxCtrlBlks[rxIndx].extsnLive = @ + 1,
              !.io.rxCtrlBlks[rxIndx].extsnBufTail = blk.primDataSz,
              !.io.rxCtrlBlks[rxIndx].dataReady = differs,
              !.io.protoDataMode = IF differs THEN "idle" ELSE "eotPhrase"]

\* the end-phrase test of the "+QMTRECV: " branch: strncmp is non-zero
MqttTermDiffers(blk) ==
    ~(blk.primDataSz >= Len(MQTT_TERM)
      /\ PrefixAt(blk.primBuf, blk.primDataSz - Len(MQTT_TERM), MQTT_TERM))

MqttRecv(s, rxIndx) ==
    MqttRecvOn(s, rxIndx, s.io.rxCtrlBlks[rxIndx],
               MqttTermDiffers(s.io.rxCtrlBlks[rxIndx]))

\* the tail of rxParseImmediate: rxParseExtended unless a branch returned
ParseImmediateThen(r, rxIndx, nd) ==
    IF r.done THEN r.s ELSE rxParseExtended(r.s, rxIndx, nd)

\* rxParseImmediate on the text primBuf of block rxIndx
ParseImmediate(s, rxIndx, primBuf, nd) ==
    ParseImmediateThen(
        IF PrefixAt(primBuf, 2, QIRD_HDR) \/ PrefixAt(primBuf, 2, QSSLRECV_HDR)
        THEN IrdReply(s, rxIndx, nd)
        ELSE IF PrefixAt(primBuf, 2, QMTRECV_HDR)
        THEN [s |-> MqttRecv(s, rxIndx), done |-> FALSE]
        ELSE [s |-> s, done |-> FALSE],
        rxIndx, nd)

rxParseImmediate(s, rxIndx, nd) ==
    ParseImmediate(s, rxIndx, s.io.rxCtrlBlks[rxIndx].primBuf, nd)

\* the end of the receive branch: a ready block ends the data mode
IsrParsed(s3, rxIndx) ==
    IF s3.f = "none" /\ s3.io.rxCtrlBlks[rxIndx].dataReady
    THEN [s3 EXCEPT !.io.protoDataMode = "idle"]
    ELSE s3

\* rxParseImmediate(rxIndx) and the end of the receive branch
IsrParse(s2, rxIndx, nd) ==
    IF s2.f # "none" THEN s2
    ELSE IsrParsed(rxParseImmediate(s2, rxIndx, nd), rxIndx)

\* the first chunk of a message goes to the primary buffer of the block
\* that rxOpenCtrlBlock made rxHead
IsrFirstChunk(s1, chunk, nd) ==
    IF s1.f # "none" THEN s1
    ELSE IsrParse([s1 EXCEPT !.io.rxCtrlBlks[s1.io.rxHead].primBuf = chunk,
                             !.io.rxCtrlBlks[s1.io.rxHead].primDataSz = Len(chunk),
                             !.io.rxCtrlBlks[s1.io.rxHead].dataReady = TRUE],
                  s1.io.rxHead, nd)

\* sc16is741a_read(extsnBufTail, rxLevel); extsnBufTail += rxLevel
StoreExtsn(s, rxIndx, chunk, nd) ==
    IF s.io.rxCtrlBlks[rxIndx].extsnBufTail = NullPtr
    THEN (IF nd = "trap" THEN HardFault(s) ELSE s)
    ELSE [s EXCEPT !.io.rxCtrlBlks[rxIndx].extsnBuf =
                       WriteAt(@, s.io.rxCtrlBlks[rxIndx].extsnBufTail, chunk),
                   !.io.rxCtrlBlks[rxIndx].extsnBufTail = @ + Len(chunk)]

\* the data-mode bookkeeping of a continuation chunk
Continued(stored, rxIndx, mode, bytes, eotDiffers) ==
    IF stored.f # "none" THEN stored
    ELSE IF mode = "irdBytes"
    THEN [stored EXCEPT !.io.protoDataBytes = bytes,
                        !.io.rxCtrlBlks[rxIndx].dataReady = (bytes = 0),
                        !.io.protoDataMode = "idle"]
    ELSE IF eotDiffers
    THEN [stored EXCEPT !.io.rxCtrlBlks[rxIndx].dataReady = TRUE,
                        !.io.protoDataMode = "idle"]
    ELSE stored

\* a later chunk goes to the extension buffer of block protoDataRxCtrlBlk
IsrContinuation(s, rxIndx, chunk, nd, eotDiffers) ==
    IF rxIndx \notin Slots THEN (IF nd = "trap" THEN HardFault(s) ELSE s)
    ELSE IsrParse(Continued(StoreExtsn(s, rxIndx, chunk, nd), rxIndx,
                            s.io.protoDataMode,
                            U16(s.io.protoDataBytes - Len(chunk)), eotDiffers),
                  rxIndx, nd)

\* the receive branch of interruptCallbackISR for one chunk read from the
\* bridge.  nd: what a null-pointer access does (see TryInvokeNoRetry);
\* eotDiffers: the outcome of the end-phrase test of a continuation chunk,
\* which compares bytes in front of primBuf.
IsrReceive(s, chunk, nd, eotDiffers) ==
    IF s.io.protoDataMode = "idle"
    THEN IsrFirstChunk(rxOpenCtrlBlock(s), chunk, nd)
    ELSE IsrContinuation(s, s.io.protoDataRxCtrlBlk, chunk, nd, eotDiffers)

\* the transmit-ready branch of interruptCallbackISR
IsrTransmit(s) ==
    LET txAvailable == FifoSz - Len(s.hw)
    IN [s EXCEPT !.hw = @ \o Take(s.io.txBuf, txAvailable),
                 !.io.txBuf = From(@, txAvailable)]

(***************************************************************************)
(* Command drain and result polling.                                       *)
(***************************************************************************)
\* strncpy(dst, src, n): n bytes, zero filled past the end of src
StrNCpy(src, n) == [i \in 1..n |-> IF i <= Len(src) THEN src[i] ELSE NUL]

\* one pass of the do-while of iop_rxGetCmdQueued at block tail: a command
\* block is copied to recvBuf and reset
CmdCopy(s, tail, recvBuf, copySz) ==
    [s EXCEPT !.resp = WriteAt(@, recvBuf,
                               StrNCpy(CStr(s.io.rxCtrlBlks[tail].primBuf, 0), copySz)),
              !.io = rxResetCtrlBlock(@, tail)]

\* the do-while walk of iop_rxGetCmdQueued from block tail on; s1 is the state
\* after the copy, copySz the bytes copied (0 when tail is no command block)
RECURSIVE CmdWalk(_, _, _, _)
RECURSIVE CmdWalked(_, _, _, _, _, _)
CmdWalked(s, s1, tail, recvBuf, recvBufSz, copySz) ==
    IF IsOccupied(s.io, tail)
       /\ s.io.rxCtrlBlks[tail].process = iopProcess_command
       /\ s.io.rxCtrlBlks[tail].primDataSz - copySz > 0
    THEN [s |-> s1, r |-> "truncated"]
    ELSE IF tail = s.io.cmdHead
    THEN [s |-> [s1 EXCEPT !.io.cmdTail = tail], r |-> "complete"]
    ELSE IF AdvIndex(tail) = s.io.cmdTail
    THEN [s |-> FaultHandler(s1), r |-> "fault"]
    ELSE CmdWalk(s1, AdvIndex(tail), recvBuf + copySz, recvBufSz - copySz)

CmdWalk(s, tail, recvBuf, recvBufSz) ==
    IF IsOccupied(s.io, tail) /\ s.io.rxCtrlBlks[tail].process = iopProcess_command
    THEN CmdWalked(s,
                   CmdCopy(s, tail, recvBuf,
                           Min(recvBufSz, s.io.rxCtrlBlks[tail].primDataSz)),
                   tail, recvBuf, recvBufSz,
                   Min(recvBufSz, s.io.rxCtrlBlks[tail].primDataSz))
    ELSE CmdWalked(s, s, tail, recvBuf, recvBufSz, 0)

\* a drain without the test of the block at cmdHead
CmdQueuedWalks(s1, recvBuf, recvBufSz) ==
    CmdWalk(s1, s1.io.cmdTail, recvBuf, recvBufSz)

\* iop_rxGetCmdQueued after iop_recvDoWork left state s1
CmdQueued(s1, recvBuf, recvBufSz) ==
    IF ~IsOccupied(s1.io, s1.io.cmdHead)
    THEN [s |-> s1, r |-> "incomplete"]
    ELSE CmdWalk(s1, s1.io.cmdTail, recvBuf, recvBufSz)

iop_rxGetCmdQueued(s, recvBuf, recvBufSz) ==
    CmdQueued(iop_recvDoWork(s), recvBuf, recvBufSz)

(***************************************************************************)
(* Socket drain.                                                           *)
(***************************************************************************)
\* what iop_rxGetSocketQueued hands to its caller from block blk: the
\* extension buffer with the primary buffer copied to its start, or the
\* primary buffer from primBufData on
SocketData(blk) ==
    IF blk.extsnBufHead # NullPtr
    THEN [sz |-> U16(blk.extsnBufTail - blk.extsnBufHead),
          data |-> WriteAt(blk.extsnBuf, 0, StrNCpy(blk.primBuf, blk.primDataSz))]
    ELSE [sz |-> blk.primDataSz,
          data |-> IF blk.primBufData = NullPtr THEN <<>>
                   ELSE Take(From(blk.primBuf, blk.primBufData), blk.primDataSz)]

\* iop_rxGetSocketQueued after iop_recvDoWork left state s1; yields the
\* state, "incomplete" or "data", and what *dataPtr and the return value
\* describe
SocketQueued(s1, tail) ==
    IF ~(IsOccupied(s1.io, tail) /\ s1.io.rxCtrlBlks[tail].dataReady)
    THEN [s |-> s1, r |-> "incomplete", sz |-> 0, data |-> <<>>]
    ELSE [s |-> [s1 EXCEPT !.io.rxCtrlBlks[tail].extsnBuf =
                     IF s1.io.rxCtrlBlks[tail].extsnBufHead # NullPtr
                     THEN SocketData(s1.io.rxCtrlBlks[tail]).data ELSE @],
          r |-> "data",
          sz |-> SocketData(s1.io.rxCtrlBlks[tail]).sz,
          data |-> SocketData(s1.io.rxCtrlBlks[tail]).data]

iop_rxGetSocketQueued(s, socketId) ==
    SocketQueued(iop_recvDoWork(s), iop_recvDoWork(s).io.socketTail[socketId])

\* a tail that goes to the socket's head at once
TailAdvanceToHead(io, socketId) ==
    [io EXCEPT !.socketTail[socketId] = io.socketHead[socketId]]

\* the while loop of iop_tailFinalize: the socket's tail advances to the
\* next block of the socket, or to the socket's head
RECURSIVE TailAdvance(_, _)
TailAdvance(io, socketId) ==
    IF io.socketTail[socketId] = io.socketHead[socketId] THEN io
    ELSE LET tail == AdvIndex(io.socketTail[socketId])
             io1 == [io EXCEPT !.socketTail[socketId] = tail]
         IN IF IsOccupied(io1, tail) /\ io1.rxCtrlBlks[tail].process = socketId
            THEN io1
            ELSE TailAdvance(io1, socketId)

iop_tailFinalize(s, socketId) ==
    [s EXCEPT !.io = TailAdvance(rxResetCtrlBlock(s.io, s.io.socketTail[socketId]),
                                 socketId)]

\* the landmark of a caller's completion parser for AT+QIACT?
QIACT_LANDMARK == <<"+", "Q", "I", "A", "C", "T", ":", " ">>

\* (*cmdCompleteParser_func)(response)
RunParser(func, response) ==
    IF func = "ok" THEN action_okResultParser(response)
    ELSE IF func = "prompt" THEN iop_txDataPromptParser(response)
    ELSE action_gapResultParser(response, <<QIACT_LANDMARK>>, FALSE, 2,
                                <<OK_COMPLETED_STRING>>)

\* the first-call branch of action_getResult: the window, the time-out and
\* the parser are installed; the caller's buffer is all zero
InstallWindow(s, responseSz, timeout, func) ==
    IF s.a.resultHead # NullPtr THEN s
    ELSE [s EXCEPT !.resp = Zeros(responseSz),
                   !.a.resultHead = 0,
                   !.a.resultTail = 0,
                   !.a.resultSz = responseSz,
                   !.a.timeoutMillis = IF timeout = 0 THEN DefaultTimeout ELSE timeout,
                   !.a.cmdCompleteParser_func = IF func = "NULL" THEN "ok" ELSE func]

\* a parse of the newest fragment only, from resultTail
ParseWindowTail(s) == RunParser(s.a.cmdCompleteParser_func, CStr(s.resp, s.a.resultTail))

\* the parser is run over the whole window, from resultHead
ParseWindow(s) == RunParser(s.a.cmdCompleteParser_func, CStr(s.resp, s.a.resultHead))

\* a close test that leaves every result open unless autoClose is set
ClosesActionAuto(parserResult, autoClose) == autoClose

\* the close test of action_getResult on a completed parse
ClosesAction(parserResult, autoClose) ==
    autoClose \/ parserResult # ACTION_RESULT_SUCCESS

\* a time-out test that fires when the budget is just used up
TimedOutInclusive(a, millis) == millis - a.invokedAt >= a.timeoutMillis

\* the time-out test of action_getResult
TimedOut(a, millis) == millis - a.invokedAt > a.timeoutMillis

\* cmdStr[0] = NULL
Unlock(s) == [s EXCEPT !.a.cmdStr = SetFirst(@, NUL)]

\* what strlen(resultTail) yields: over is the number of bytes it reads past
\* the end of the window when the text fills the window
StrLenTail(buf, resultTail, over) ==
    Len(CStr(buf, resultTail))
    + (IF resultTail + Len(CStr(buf, resultTail)) >= Len(buf) THEN over ELSE 0)

\* uint8_t resultSz = strlen(resultTail); resultSz -= ...; resultTail += ...
Deplete(s, resultSz) ==
    [s EXCEPT !.a.resultSz = U16(@ - resultSz), !.a.resultTail = @ + resultSz]

\* the two exits of action_getResult after the parse
Conclude(s1, parserResult, autoClose) ==
    IF parserResult >= ACTION_RESULT_SUCCESS
    THEN [s |-> IF ClosesAction(parserResult, autoClose) THEN Unlock(s1) ELSE s1,
          r |-> parserResult]
    ELSE IF TimedOut(s1.a, now)
    THEN [s |-> Unlock(s1), r |-> ACTION_RESULT_TIMEOUT]
    ELSE [s |-> s1, r |-> ACTION_RESULT_PENDING]

\* action_getResult once the drain left state s1 with new text in the window
Parsed(s1, autoClose) == Conclude(s1, ParseWindow(s1), autoClose)

\* action_getResult after iop_rxGetCmdQueued returned rx
Drained(rx, autoClose, over) ==
    IF rx.r = "fault" THEN [s |-> rx.s, r |-> ACTION_RESULT_PENDING]
    ELSE IF rx.r \in {"complete", "truncated"}
    THEN Parsed(Deplete(rx.s, U8(StrLenTail(rx.s.resp, rx.s.a.resultTail, over))),
                autoClose)
    ELSE Conclude(rx.s, ACTION_RESULT_PENDING, autoClose)

\* action_getResult after the window is installed
Installed(s0, autoClose, over) ==
    Drained(iop_rxGetCmdQueued(s0, s0.a.resultTail, s0.a.resultSz), autoClose, over)

\* action_getResult with g_ltem1->action valid
action_getResult(s, responseSz, timeout, func, autoClose, over) ==
    Installed(InstallWindow(s, responseSz, timeout, func), autoClose, over)

\* a send of data that keeps the time stamp of the invoke
action_sendDataKeepsTime(s, data) ==
    iop_txSend([s EXCEPT !.a.cmdCompleteParser_func = "ok"], data, FALSE)

\* action_sendData
action_sendData(s, data) ==
    iop_txSend([s EXCEPT !.a.cmdCompleteParser_func = "ok", !.a.invokedAt = now],
               data, FALSE)

\* action_cancel
action_cancel(s) == [action_reset(s) EXCEPT !.ap = "null"]


(***************************************************************************)
(* Inputs.                                                                 *)
(***************************************************************************)
\* command text of the application
Cmds == {<<"A", "T">>}
\* the responseSz, timeout and parser arguments the application passes to
\* getResult / awaitResult: a window that holds the longest reply, the
\* default time-out and the default parser
DefaultRequest == [responseSz |-> 20, timeout |-> 0, func |-> "NULL"]
\* outcomes of an access through a null g_ltem1->action
NullDeref == {"trap", "zero", "nonzero"}

\* what the modem sends, one element per read of the receive FIFO
ChunkOk == <<"\r", "\n", "O", "K", "\r", "\n">>
ChunkOkHead == <<"\r", "\n", "O">>
ChunkOkTail == <<"K", "\r", "\n">>
ChunkCme516 ==
    <<"\r", "\n">> \o CME_PREABLE \o <<" ", "5", "1", "6", "\r", "\n">>
ChunkRecv == <<"\r", "\n">> \o URC_IPRECV_HDR \o <<"\"", ",", "0", "\r", "\n">>
\* a command reply in two fragments, and an error reply
ReplyChunks == {ChunkOkHead, ChunkOkTail, ChunkCme516}

(***************************************************************************)
(* Initial state: after iop_create, action_reset and power-on.             *)
(***************************************************************************)
NoCall == [op |-> "none", cmdStr |-> <<>>, retry |-> FALSE, retryCnt |-> 0,
           relSeen |-> FALSE, responseSz |-> 0, timeout |-> 0, func |-> "NULL",
           autoClose |-> FALSE, apprdyWaitStart |-> 0,
           sendData |-> <<>>, queuedSz |-> 0, txAvail |-> 0, txData |-> <<>>]
\* the record of a returned call: relSeen tells whether the lock was released
\* while the call waited for it
Ret(op, val) == [op |-> op, val |-> val, relSeen |-> FALSE]
NoRet == Ret("none", 0)

Init ==
    /\ action = [ActionZero EXCEPT !.irdPending = iopProcess_void]
    /\ actionPtr = "valid"
    /\ resp = <<>>
    /\ iop = IopInit
    /\ sockets = [k \in Sockets |-> FALSE]
    /\ qbgReadyState = "powerOn"
    /\ hwTx = <<>>
    /\ now = 0
    /\ fault = "none"
    /\ pc = "idle"
    /\ call = NoCall
    /\ ret = NoRet
    /\ rxCount = 0
    /\ calls = 0
    /\ grants = 0
    /\ wire = <<>>

\* a block that holds one byte of data for process p, the byte its index
PoolBlock(p, i) ==
    IF p = iopProcess_void THEN CtrlBlkZero
    ELSE [CtrlBlkZero EXCEPT !.process = p,
                             !.primBuf = <<Digits[i + 1]>>,
                             !.primDataSz = 1,
                             !.primBufData = 0,
                             !.dataReady = TRUE]

\* the owners a block can have
Owners == {iopProcess_void, iopProcess_command} \cup Sockets

\* the socket drains as functions of the pool: every tagging of the blocks
\* and every head and tail of socket 0
InitPool ==
    /\ action = [ActionZero EXCEPT !.irdPending = iopProcess_void]
    /\ actionPtr = "valid"
    /\ resp = <<>>
    /\ \E owner \in [Slots -> Owners], head \in Slots, tail \in Slots :
          iop = [IopInit EXCEPT
                   !.rxCtrlBlks = [i \in Slots |-> PoolBlock(owner[i], i)],
                   !.socketHead[0] = head,
                   !.socketTail[0] = tail]
    /\ sockets = [k \in Sockets |-> FALSE]
    /\ qbgReadyState = "appReady"
    /\ hwTx = <<>>
    /\ now = 0
    /\ fault = "none"
    /\ pc = "idle"
    /\ call = NoCall
    /\ ret = NoRet
    /\ rxCount = 0
    /\ calls = 0
    /\ grants = 0
    /\ wire = <<>>

\* the state in which iop_create is called
InitCreate ==
    /\ action = [ActionZero EXCEPT !.irdPending = iopProcess_void]
    /\ actionPtr = "valid"
    /\ resp = <<>>
    /\ iop = IopInit
    /\ sockets = [k \in Sockets |-> FALSE]
    /\ qbgReadyState = "powerOn"
    /\ hwTx = <<>>
    /\ now = 0
    /\ fault = "none"
    /\ pc = "create"
    /\ call = NoCall
    /\ ret = NoRet
    /\ rxCount = 0
    /\ calls = 0
    /\ grants = 0
    /\ wire = <<>>

Grant(g) == Min(g + 1, 2)
\* the value of grants after a getResult or cancel that left state s
Released(s) == IF s.ap = "valid" /\ IsLocked(s.a) THEN grants ELSE 0
\* the lock as a polling tryInvoke sees it
SeesLocked == IF actionPtr = "valid" THEN IsLocked(action) ELSE TRUE

(***************************************************************************)
(* Normal context: action_tryInvoke, one action per preemption point.      *)
(***************************************************************************)
\* a lock test that lets a single-attempt caller through a held lock
LockTestBlind(locked, retry) ==
    IF ~locked \/ ~retry THEN "go" ELSE "wait"

\* the first test of tryActionLock: "go", "fail" or "wait"
LockTest(locked, retry) ==
    IF ~locked THEN "go" ELSE IF retry THEN "wait" ELSE "fail"

TryInvoke(cmdStr, retry, nd) ==
    /\ Running /\ pc = "idle" /\ calls < MaxCalls
    /\ calls' = calls + 1
    /\ nd \in (IF actionPtr = "null" THEN NullDeref ELSE {"zero"})
    /\ LET locked == IF actionPtr = "valid" THEN IsLocked(action)
                     ELSE nd = "nonzero"
           test == LockTest(locked, retry)
           c == [NoCall EXCEPT !.op = "tryInvoke", !.cmdStr = cmdStr,
                               !.retry = retry]
       IN IF actionPtr = "null" /\ nd = "trap"
          THEN /\ Commit(HardFault(St))
               /\ UNCHANGED <<now, pc, call, ret, rxCount, wire, grants>>
          ELSE /\ pc' = IF test = "go" THEN "ti_lock"
                        ELSE IF test = "wait" THEN "ti_wait" ELSE "idle"
               /\ call' = IF test = "fail" THEN NoCall ELSE c
               /\ ret' = IF test = "fail"
                         THEN Ret("tryInvoke", FALSE) ELSE ret
               /\ UNCHANGED <<action, actionPtr, resp, iop, sockets,
                              qbgReadyState, hwTx, now, fault, rxCount, wire, grants>>

\* a retry loop without a budget
RetryPollForever(locked, retryCnt) == IF ~locked THEN "go" ELSE "wait"

\* a retry loop that does not notice a released lock
RetryPollDeaf(locked, retryCnt) ==
    IF retryCnt + 1 = ACTIONS_RETRY_MAX THEN "fail" ELSE "wait"

\* one pass of the retry loop of tryActionLock: "go", "fail" or "wait"
RetryPoll(locked, retryCnt) ==
    IF ~locked THEN "go"
    ELSE IF retryCnt + 1 = ACTIONS_RETRY_MAX THEN "fail" ELSE "wait"

\* while (cmdStr[0] != NULL) { retryCnt++; ... timing_delay; timing_yield;
\* ip_receiverDoWork }
TryInvokeWait ==
    /\ Running /\ pc = "ti_wait"
    /\ LET poll == RetryPoll(SeesLocked, call.retryCnt)
       IN /\ pc' = IF poll = "go" THEN "ti_lock"
                   ELSE IF poll = "wait" THEN "ti_wait" ELSE "idle"
          /\ call' = IF poll = "wait" THEN [call EXCEPT !.retryCnt = @ + 1]
                     ELSE IF poll = "fail" THEN NoCall ELSE call
          /\ ret' = IF poll = "fail"
                    THEN [op |-> "tryInvokeRetry", val |-> FALSE,
                          relSeen |-> call.relSeen]
                    ELSE ret
          /\ now' = IF poll = "wait" THEN Min(now + ACTIONS_RETRY_INTERVAL, MaxTime)
                    ELSE now
    /\ UNCHANGED <<action, actionPtr, resp, iop, sockets, qbgReadyState, hwTx,
                   fault, rxCount, wire, calls, grants>>

\* cmdStr[0] = '*'; through a null g_ltem1->action the store traps or is lost
TryInvokeLock(nd) ==
    /\ Running /\ pc = "ti_lock"
    /\ nd \in (IF actionPtr = "null" THEN {"trap", "zero"} ELSE {"zero"})
    /\ Commit(IF actionPtr = "valid" THEN LockSet(St)
              ELSE IF nd = "trap" THEN HardFault(St)
              ELSE St)
    /\ pc' = IF fault' = "none" THEN "ti_reset" ELSE pc
    /\ UNCHANGED <<now, call, ret, rxCount, wire, calls, grants>>

\* action_reset(g_ltem1->action)
TryInvokeReset ==
    /\ Running /\ pc = "ti_reset"
    /\ Commit(action_reset(St))
    /\ pc' = "ti_copy"
    /\ UNCHANGED <<now, call, ret, rxCount, wire, calls, grants>>

\* strncpy, invokedAt = timing_millis(), strcat
TryInvokeCopy ==
    /\ Running /\ pc = "ti_copy"
    /\ Commit(InvokeCopy(St, call.cmdStr))
    /\ pc' = "ti_send"
    /\ UNCHANGED <<now, call, ret, rxCount, wire, calls, grants>>

\* iop_txSend and return true
TryInvokeSend ==
    /\ Running /\ pc = "ti_send"
    /\ Commit(InvokeSend(St))
    /\ IF fault' = "none"
       THEN /\ pc' = "idle"
            /\ call' = NoCall
            /\ ret' = [op |-> IF call.retry THEN "tryInvokeRetry" ELSE "tryInvoke",
                       val |-> TRUE, relSeen |-> call.relSeen]
            /\ grants' = Grant(grants)
       ELSE UNCHANGED <<pc, call, ret, grants>>
    /\ UNCHANGED <<now, rxCount, wire, calls>>

(***************************************************************************)
(* Normal context: the other entry points of the action controller.        *)
(***************************************************************************)
\* action_getResult through a pointer that may be null: nd is "zero" when
\* the pointer is valid
GetResultAny(s, responseSz, timeout, func, autoClose, over, nd) ==
    IF s.ap = "valid"
    THEN action_getResult(s, responseSz, timeout, func, autoClose, over)
    ELSE IF nd = "trap" THEN [s |-> HardFault(s), r |-> ACTION_RESULT_PENDING]
    ELSE [s |-> s, r |-> ACTION_RESULT_PENDING]

\* one call of action_getResult: by the application between two calls, or
\* by the application's yield hook (platform_yieldCB_func) when tryActionLock
\* calls timing_yield; awaitResult calls the core's yield(), not the hook
GetResult(responseSz, timeout, func, autoClose, over, nd) ==
    /\ Running /\ pc \in {"idle", "ti_wait"} /\ calls < MaxCalls
    /\ calls' = calls + 1
    /\ nd \in (IF actionPtr = "null" THEN {"trap", "zero"} ELSE {"zero"})
    /\ \E g \in {GetResultAny(St, responseSz, timeout, func, autoClose, over, nd)} :
          /\ Commit(g.s)
          /\ ret' = IF g.s.f = "none" THEN Ret("getResult", g.r)
                    ELSE ret
          /\ grants' = Released(g.s)
          /\ call' = IF pc = "ti_wait" /\ IsLocked(action) /\ ~IsLocked(g.s.a)
                     THEN [call EXCEPT !.relSeen = TRUE] ELSE call
    /\ UNCHANGED <<now, pc, rxCount, wire>>

\* a single-pass awaitResult: it returns whatever its first getResult yields
AwaitPassOnce(c, g) ==
    /\ Commit(g.s)
    /\ grants' = Released(g.s)
    /\ IF g.s.f # "none" THEN UNCHANGED <<pc, call, ret>>
       ELSE /\ pc' = "idle"
            /\ call' = NoCall
            /\ ret' = Ret("awaitResult", g.r)
    /\ UNCHANGED <<now, rxCount, wire>>

\* one pass of the do-while of action_awaitResult, up to its yield(); c is
\* the call record, g what action_getResult yields
AwaitPass(c, g) ==
    /\ Commit(g.s)
    /\ grants' = Released(g.s)
    /\ IF g.s.f # "none" THEN UNCHANGED <<pc, call, ret>>
       ELSE /\ pc' = IF g.r # ACTION_RESULT_PENDING THEN "idle" ELSE "aw_yield"
            /\ call' = IF g.r # ACTION_RESULT_PENDING THEN NoCall ELSE c
            /\ ret' = IF g.r # ACTION_RESULT_PENDING
                      THEN Ret("awaitResult", g.r) ELSE ret
    /\ UNCHANGED <<now, rxCount, wire>>

AwaitResult(responseSz, timeout, func, autoClose, over, nd) ==
    /\ Running /\ pc = "idle" /\ calls < MaxCalls
    /\ calls' = calls + 1
    /\ nd \in (IF actionPtr = "null" THEN {"trap", "zero"} ELSE {"zero"})
    /\ \E g \in {GetResultAny(St, responseSz, timeout, func, autoClose, over, nd)} :
          AwaitPass([NoCall EXCEPT !.op = "awaitResult",
                                   !.responseSz = responseSz, !.timeout = timeout,
                                   !.func = func, !.autoClose = autoClose], g)

AwaitPoll(over, nd) ==
    /\ Running /\ pc = "aw_yield"
    /\ UNCHANGED calls
    /\ nd \in (IF actionPtr = "null" THEN {"trap", "zero"} ELSE {"zero"})
    /\ \E g \in {GetResultAny(St, call.responseSz, call.timeout, call.func,
                              call.autoClose, over, nd)} :
          AwaitPass(call, g)

\* iop_create: calloc yields the structure or NULL
IopCreate(allocated) ==
    /\ Running /\ pc = "create"
    /\ Commit(IF allocated THEN [St EXCEPT !.io = IopInit] ELSE FaultHandler(St))
    /\ pc' = IF allocated THEN "idle" ELSE pc
    /\ UNCHANGED <<now, call, ret, rxCount, wire, calls, grants>>

\* a pass that never gives up
AwaitAppReadyPatient(s, apprdyWaitStart) == iop_recvDoWork(s)

\* one pass of the loop of iop_awaitAppReady behind its test of the ready
\* state: iop_recvDoWork, timing_yield, the test of the time waited
AwaitAppReadyPass(s, apprdyWaitStart) ==
    IF apprdyWaitStart + QBG_APPREADY_MILLISMAX < now
    THEN FaultHandler(iop_recvDoWork(s))
    ELSE iop_recvDoWork(s)

\* iop_awaitAppReady up to the end of the first pass of its loop
AwaitAppReady ==
    /\ Running /\ pc = "idle" /\ calls < MaxCalls
    /\ calls' = calls + 1
    /\ IF qbgReadyState = "appReady"
       THEN /\ ret' = Ret("awaitAppReady", 0)
            /\ UNCHANGED <<action, actionPtr, resp, iop, sockets, qbgReadyState,
                           hwTx, fault, pc, call>>
       ELSE /\ Commit(AwaitAppReadyPass(St, now))
            /\ pc' = "rdy_yield"
            /\ call' = [NoCall EXCEPT !.op = "awaitAppReady",
                                      !.apprdyWaitStart = now]
            /\ UNCHANGED ret
    /\ UNCHANGED <<now, rxCount, wire, grants>>

\* the next test of the ready state and the pass behind it
AwaitAppReadyPoll ==
    /\ Running /\ pc = "rdy_yield"
    /\ IF qbgReadyState = "appReady"
       THEN /\ pc' = "idle"
            /\ call' = NoCall
            /\ ret' = Ret("awaitAppReady", 0)
            /\ UNCHANGED <<action, actionPtr, resp, iop, sockets, qbgReadyState,
                           hwTx, fault>>
       ELSE /\ Commit(AwaitAppReadyPass(St, call.apprdyWaitStart))
            /\ UNCHANGED <<pc, call, ret>>
    /\ UNCHANGED <<now, rxCount, wire, calls, grants>>

SendData(data, nd) ==
    /\ Running /\ pc = "idle" /\ calls < MaxCalls
    /\ calls' = calls + 1
    /\ nd \in (IF actionPtr = "null" THEN {"trap", "zero"} ELSE {"zero"})
    /\ Commit(IF actionPtr = "valid" THEN action_sendData(St, data)
              ELSE IF nd = "trap" THEN HardFault(St)
              ELSE iop_txSend(St, data, FALSE))
    /\ ret' = IF fault' = "none" THEN Ret("sendData", 0) ELSE ret
    /\ UNCHANGED <<now, pc, call, rxCount, wire, grants>>

\* action_sendData as the processor runs it, the interrupt handler free to
\* run between any two steps: entry, up to the call of iop_txSend
SendDataEnter(data) ==
    /\ Running /\ pc = "idle" /\ calls < MaxCalls /\ actionPtr = "valid"
    /\ calls' = calls + 1
    /\ action' = [action EXCEPT !.cmdCompleteParser_func = "ok",
                                !.invokedAt = now]
    /\ pc' = "tx_put"
    /\ call' = [NoCall EXCEPT !.op = "sendData", !.sendData = data]
    /\ UNCHANGED <<actionPtr, resp, iop, sockets, qbgReadyState, hwTx, now,
                   fault, ret, rxCount, wire, grants>>

\* one pass of the loop of txPut: cbuf_push of the next byte; at the end of
\* the loop iop_txSend compares queuedSz with sendSz
TxPutPass ==
    /\ Running /\ pc = "tx_put"
    /\ IF /\ call.queuedSz < Len(call.sendData)
          /\ Len(iop.txBuf) < TxBufferSz
       THEN /\ iop' = [iop EXCEPT
                         !.txBuf = Append(@, call.sendData[call.queuedSz + 1])]
            /\ call' = [call EXCEPT !.queuedSz = @ + 1]
            /\ UNCHANGED <<pc, fault>>
       ELSE /\ IF call.queuedSz = Len(call.sendData)
               THEN pc' = "tx_lvl" /\ fault' = fault
               ELSE pc' = pc /\ fault' = "fault"
            /\ UNCHANGED <<iop, call>>
    /\ UNCHANGED <<action, actionPtr, resp, sockets, qbgReadyState, hwTx, now,
                   ret, rxCount, wire, calls, grants>>

\* txSendChunk, the read of the bridge's transmit level
TxChunkLevel ==
    /\ Running /\ pc = "tx_lvl"
    /\ LET txAvail == FifoSz - Len(hwTx)
       IN IF txAvail = FifoSz
          THEN /\ pc' = "tx_take"
               /\ call' = [call EXCEPT !.txAvail = txAvail]
               /\ ret' = ret
          ELSE /\ pc' = "idle"
               /\ call' = NoCall
               /\ ret' = Ret("sendData", 0)
    /\ UNCHANGED <<action, actionPtr, resp, iop, sockets, qbgReadyState, hwTx,
                   now, fault, rxCount, wire, calls, grants>>

\* txSendChunk, txTake into the local txData
TxChunkTake ==
    /\ Running /\ pc = "tx_take"
    /\ iop' = [iop EXCEPT !.txBuf = From(@, call.txAvail)]
    /\ IF iop.txBuf # <<>>
       THEN /\ pc' = "tx_write"
            /\ call' = [call EXCEPT !.txData = Take(iop.txBuf, call.txAvail)]
            /\ ret' = ret
       ELSE /\ pc' = "idle"
            /\ call' = NoCall
            /\ ret' = Ret("sendData", 0)
    /\ UNCHANGED <<action, actionPtr, resp, sockets, qbgReadyState, hwTx, now,
                   fault, rxCount, wire, calls, grants>>

\* txSendChunk, sc16is741a_write of txData: the bridge's FIFO keeps the
\* bytes it has room for
TxChunkWrite ==
    /\ Running /\ pc = "tx_write"
    /\ hwTx' = hwTx \o Take(call.txData, FifoSz - Len(hwTx))
    /\ pc' = "idle"
    /\ call' = NoCall
    /\ ret' = Ret("sendData", 0)
    /\ UNCHANGED <<action, actionPtr, resp, iop, sockets, qbgReadyState, now,
                   fault, rxCount, wire, calls, grants>>

SendDataSteps ==
    \/ TxPutPass
    \/ TxChunkLevel
    \/ TxChunkTake
    \/ TxChunkWrite

Cancel ==
    /\ Running /\ pc = "idle" /\ calls < MaxCalls
    /\ calls' = calls + 1
    /\ Commit(action_cancel(St))
    /\ ret' = Ret("cancel", 0)
    /\ grants' = 0
    /\ UNCHANGED <<now, pc, call, rxCount, wire>>

(***************************************************************************)
(* Interrupt context and environment.                                      *)
(***************************************************************************)
\* receive interrupt: the bridge holds chunk in its receive FIFO
IsrRxChunk(limit, chunk, nd, eotDiffers) ==
    /\ Running /\ rxCount < limit
    /\ Commit(IsrReceive(St, chunk, nd, eotDiffers))
    \* the handler's own action_tryInvoke returned true
    /\ grants' = IF /\ fault' = "none" /\ actionPtr' = "valid" /\ IsLocked(action')
                    /\ ~(actionPtr = "valid" /\ IsLocked(action))
                 THEN Grant(grants) ELSE grants
    /\ rxCount' = rxCount + 1
    /\ UNCHANGED <<now, pc, call, ret, calls>>

\* receive interrupt, in the runs that follow limit chunks
IsrRxUpTo(limit, chunk, nd, eotDiffers) ==
    IsrRxChunk(limit, chunk, nd, eotDiffers) /\ UNCHANGED wire

\* receive interrupt, in the runs that follow MaxRx chunks
IsrRx(chunk, nd, eotDiffers) == IsrRxUpTo(MaxRx, chunk, nd, eotDiffers)

\* transmit-ready interrupt: the hardware FIFO has room and bytes are queued
IsrTx ==
    /\ Running /\ Len(hwTx) < FifoSz /\ iop.txBuf # <<>>
    /\ Commit(IsrTransmit(St))
    /\ UNCHANGED <<now, pc, call, ret, rxCount, wire, calls, grants>>

\* the bridge has shifted the content of its transmit FIFO out to the modem
HwTransmit ==
    /\ Running /\ hwTx # <<>>
    /\ hwTx' = <<>>
    /\ UNCHANGED <<action, actionPtr, resp, iop, sockets, qbgReadyState, now,
                   fault, pc, call, ret, rxCount, wire, calls, grants>>

\* the millisecond clock advances
Tick ==
    /\ Running /\ now < MaxTime
    /\ now' = now + 1
    /\ UNCHANGED <<action, actionPtr, resp, iop, sockets, qbgReadyState, hwTx,
                   fault, pc, call, ret, rxCount, wire, calls, grants>>

(***************************************************************************)
(* The completion parsers applied to a response text.  The text is built   *)
(* in the response window, piece by piece, and then handed to one parser:  *)
(* the parsers are functions of their arguments, so a second call adds     *)
(* nothing.                                                                *)
(***************************************************************************)
TextFiller == <<"a">>
TextDelim == ","
\* what a response text is made of
TextPieces ==
    {QIACT_LANDMARK, TextFiller, TextFiller \o TextFiller, <<TextDelim>>,
     OK_COMPLETED_STRING,
     ERROR_COMPLETED_STRING, FAIL_COMPLETED_STRING, CME_PREABLE,
     <<" ", "5", "1", "6">>, <<" ", "3">>, <<" ", "7", "0", "0", "0", "0">>}
\* the landmarks a caller passes: one that cannot overlap itself and one
\* that can
Landmarks == {QIACT_LANDMARK, TextFiller \o TextFiller}

\* one more piece of text arrives in the window
ParseText(piece) ==
    /\ Running /\ call = NoCall /\ rxCount < MaxPieces
    /\ resp' = resp \o piece
    /\ rxCount' = rxCount + 1
    /\ call' = NoCall
    /\ ret' = NoRet
    /\ UNCHANGED <<action, actionPtr, iop, sockets, qbgReadyState, hwTx, now,
                   fault, pc, calls, grants, wire>>

\* action_gapResultParser(resp, landmark, landmarkReqd, gap, terminator)
GapParser(landmark, landmarkReqd, gap, terminator) ==
    /\ Running /\ call = NoCall
    /\ call' = [op |-> "gapParser", landmark |-> landmark,
                landmarkReqd |-> landmarkReqd, gap |-> gap,
                terminator |-> terminator]
    /\ ret' = Ret("gapParser",
                  action_gapResultParser(resp, landmark, landmarkReqd, gap,
                                         terminator))
    /\ UNCHANGED <<action, actionPtr, resp, iop, sockets, qbgReadyState, hwTx,
                   now, fault, pc, rxCount, wire, calls, grants>>

\* action_tokenResultParser(resp, landmark, delim, minTokens)
TokenParser(landmark, delim, minTokens, nd) ==
    /\ Running /\ call = NoCall
    /\ call' = [op |-> "tokenParser", landmark |-> landmark, delim |-> delim,
                minTokens |-> minTokens]
    /\ \E g \in {action_tokenResultParser(resp, landmark, delim, minTokens, nd)} :
          /\ fault' = g.f
          /\ ret' = IF g.f = "none" THEN Ret("tokenParser", g.r) ELSE ret
    /\ UNCHANGED <<action, actionPtr, resp, iop, sockets, qbgReadyState, hwTx,
                   now, pc, rxCount, wire, calls, grants>>

\* action_okResultParser(resp)
OkParser ==
    /\ Running /\ call = NoCall
    /\ call' = [op |-> "okParser"]
    /\ ret' = Ret("okParser", action_okResultParser(resp))
    /\ UNCHANGED <<action, actionPtr, resp, iop, sockets, qbgReadyState, hwTx,
                   now, fault, pc, rxCount, wire, calls, grants>>

(***************************************************************************)
(* The receive side on its own: the modem's traffic arrives chunk by chunk *)
(* and the application drains the command stream and the socket streams.   *)
(* Every chunk carries the number of its arrival, so that the order of     *)
(* arrival can be read from the text.                                      *)
(***************************************************************************)
\* chunks received in a run of the receive side
MaxChunks == 4
\* the size of the buffer the application drains command text into
RecvBufSz == DefaultRequest.responseSz

\* the mark of the chunk that arrives next
ArrivalMark == Digits[rxCount + 1]
\* a fragment of a command reply
CmdFragment(mark) == <<"c", mark>>
\* the reply to a sized read with one byte of data, the mark
IrdFragment(mark) == <<CR, LF>> \o QIRD_HDR \o <<"1", CR, LF, mark>>
\* the power-on banner
ChunkAppRdy == <<CR, LF>> \o APPRDY_BANNER
\* what the modem may send next: a command fragment, the "recv" notice of
\* socket 0, status text and, once the handler has asked for the data of a
\* socket, socket data
RxTraffic ==
    {CmdFragment(ArrivalMark), ChunkRecv, ChunkAppRdy}
    \cup (IF iop.protoDataSocket \in Sockets THEN {IrdFragment(ArrivalMark)}
          ELSE {})

\* an unsolicited status message (+QIURC: "pdpdeact",<contextID>), cut short
ChunkStatus(mark) == <<CR, LF>> \o QIURC_HDR \o <<"\"", "p", "\"", ",", mark, CR, LF>>
\* the reply to a sized read when the socket has no data
IrdEmpty == <<CR, LF>> \o QIRD_HDR \o <<"0", CR, LF>>
\* unsolicited traffic: command fragments, "recv" notices, the banner, status
\* messages and, once the handler has asked for the data of a socket, the
\* replies to a sized read
UrcTraffic ==
    {CmdFragment(ArrivalMark), ChunkRecv, ChunkAppRdy, ChunkStatus(ArrivalMark)}
    \cup (IF iop.protoDataSocket \in Sockets
          THEN {IrdFragment(ArrivalMark), IrdEmpty}
          ELSE {})

\* the application's zero-filled buffer of RecvBufSz bytes; resp is the text
\* in it
RecvBuf == resp \o Zeros(RecvBufSz - Len(resp))

\* the application calls iop_rxGetCmdQueued(buf + strlen(buf), room left)
RxGetCmdQueued ==
    /\ Running /\ pc = "idle" /\ calls < MaxCalls
    /\ calls' = calls + 1
    /\ \E g \in {iop_rxGetCmdQueued([St EXCEPT !.resp = RecvBuf], Len(resp),
                                     RecvBufSz - Len(resp))} :
          /\ Commit([g.s EXCEPT !.resp = CStr(@, 0)])
          /\ ret' = Ret("rxGetCmdQueued", [r |-> g.r])
    /\ UNCHANGED <<now, pc, call, rxCount, wire, grants>>

\* the application calls iop_rxGetSocketQueued(socketId, &data, host, port)
RxGetSocketQueued(socketId) ==
    /\ Running /\ pc = "idle" /\ calls < MaxCalls
    /\ calls' = calls + 1
    /\ \E g \in {iop_rxGetSocketQueued(St, socketId)} :
          /\ Commit(g.s)
          /\ ret' = Ret("rxGetSocketQueued",
                        [r |-> g.r, socketId |-> socketId, sz |-> g.sz,
                         data |-> g.data])
    /\ UNCHANGED <<now, pc, call, rxCount, wire, grants>>

\* the application calls iop_tailFinalize(socketId)
TailFinalize(socketId) ==
    /\ Running /\ pc = "idle" /\ calls < MaxCalls
    /\ calls' = calls + 1
    /\ Commit(iop_tailFinalize(St, socketId))
    /\ ret' = Ret("tailFinalize", [socketId |-> socketId])
    /\ UNCHANGED <<now, pc, call, rxCount, wire, grants>>

(***************************************************************************)
(* The transmit side: commands and data payloads go to the transmit ring,  *)
(* the interrupt handler and the bridge move them on.                      *)
(***************************************************************************)
\* n bytes of a data payload; the bytes differ so that their order shows
TxData(n) == [i \in 1..n |-> Digits[((calls + i) % 10) + 1]]
\* the payloads the application sends: one byte, more than the bridge's
\* FIFO takes at once, as much as the ring holds
TxPayloads == {TxData(1), TxData(FifoSz + 1), TxData(TxBufferSz)}
\* the payloads of the sends that run step by step: less and more than the
\* bridge's FIFO takes at once
DrainPayloads == {TxData(2), TxData(FifoSz + 1)}

(***************************************************************************)
(* Data reassembly: a sized read longer than the primary buffer and a      *)
(* subscription message arrive in several chunks.                          *)
(***************************************************************************)
\* the length the sized-read reply declares: more than the primary buffer
\* holds
IrdLen == PrimBufIrdCap + 1
\* n bytes of payload
Payload(n) == [i \in 1..n |-> "x"]
\* the first chunk of the reply to a sized read, with n bytes of the data
IrdHeader(n) ==
    <<CR, LF>> \o QIRD_HDR \o <<Digits[IrdLen + 1], CR, LF>> \o Payload(n)
\* the first chunk of a subscription message: one that stops in the middle
\* of the message and one that holds all of it
MqttHead == <<CR, LF>> \o QMTRECV_HDR \o <<"0", ",", "0", ",", "\"", "t">>
MqttWhole == MqttHead \o MQTT_TERM
\* what the modem may send next in a data run
DataTraffic ==
    {ChunkRecv, MqttHead, MqttWhole, MQTT_TERM, Payload(1) \o MQTT_TERM,
     Payload(1), Payload(IrdLen - 1), Payload(IrdLen)}
    \cup (IF iop.protoDataSocket \in Sockets THEN {IrdHeader(0), IrdHeader(1)}
          ELSE {})

\* receive interrupt of a data run; the chunk is added to the history
IsrRxData(chunk, nd, eotDiffers) ==
    /\ IsrRxChunk(MaxChunks, chunk, nd, eotDiffers)
    /\ wire' = Append(wire, chunk)

\* the outcomes of an access through g_ltem1->action, or through the
\* extension buffer of a continuation chunk, that the current state allows
NullDerefNow ==
    IF actionPtr = "null" \/ iop.protoDataMode # "idle" THEN NullDeref
    ELSE {"zero"}
\* the outcomes of the end-phrase test that the current state allows
EotNow == IF iop.protoDataMode = "eotPhrase" THEN BOOLEAN ELSE {FALSE}

\* the steps of a tryInvoke that passed the lock test
TryInvokeSteps ==
    \/ \E nd \in NullDerefNow : TryInvokeLock(nd)
    \/ TryInvokeReset
    \/ TryInvokeCopy
    \/ TryInvokeSend

\* the transmit side: the transmit-ready interrupt and the bridge's shifter
Transmit ==
    \/ IsrTx
    \/ HwTransmit

\* the lock: single-attempt invokes, polls, cancel and the interrupt
\* handler's own sized-read request
NextLock ==
    \/ \E c \in Cmds, nd \in NullDerefNow : TryInvoke(c, FALSE, nd)
    \/ TryInvokeSteps
    \/ \E ac \in BOOLEAN, over \in 0..1, nd \in NullDerefNow :
          GetResult(DefaultRequest.responseSz, DefaultRequest.timeout,
                    DefaultRequest.func, ac, over, nd)
    \/ Cancel
    \/ \E ch \in {ChunkOk, ChunkRecv}, nd \in NullDerefNow, e \in EotNow :
          IsrRx(ch, nd, e)
    \/ Transmit
    \/ Tick

\* the retry loop of tryActionLock
NextRetry ==
    \/ \E c \in Cmds, retry \in BOOLEAN, nd \in NullDerefNow :
          TryInvoke(c, retry, nd)
    \/ TryInvokeWait
    \/ TryInvokeSteps
    \/ \E ac \in BOOLEAN, over \in 0..1, nd \in NullDerefNow :
          GetResult(DefaultRequest.responseSz, DefaultRequest.timeout,
                    DefaultRequest.func, ac, over, nd)
    \/ \E nd \in NullDerefNow, e \in EotNow : IsrRx(ChunkRecv, nd, e)
    \/ Transmit

\* result polling
NextResult ==
    \/ \E c \in Cmds, nd \in NullDerefNow : TryInvoke(c, FALSE, nd)
    \/ TryInvokeSteps
    \/ \E ac \in BOOLEAN, over \in 0..1, nd \in NullDerefNow :
          GetResult(DefaultRequest.responseSz, DefaultRequest.timeout,
                    DefaultRequest.func, ac, over, nd)
    \/ \E ac \in BOOLEAN, over \in 0..1, nd \in NullDerefNow :
          AwaitResult(DefaultRequest.responseSz, DefaultRequest.timeout,
                      DefaultRequest.func, ac, over, nd)
    \/ \E over \in 0..1, nd \in NullDerefNow : AwaitPoll(over, nd)
    \/ \E ch \in ReplyChunks, nd \in NullDerefNow, e \in EotNow : IsrRx(ch, nd, e)
    \/ Tick

\* the completion parsers over every text of at most MaxPieces pieces
NextParse ==
    \/ \E piece \in TextPieces : ParseText(piece)
    \/ \E lm \in {<<>>} \cup {<<l>> : l \in Landmarks}, reqd \in BOOLEAN,
          gap \in 0..2, term \in {<<>>, <<OK_COMPLETED_STRING>>} :
          GapParser(lm, reqd, gap, term)
    \/ \E lm \in Landmarks, minTokens \in 0..3, nd \in NullDeref :
          TokenParser(lm, TextDelim, minTokens, nd)
    \/ OkParser

\* the receive side: traffic and drains
NextRx ==
    \/ \E ch \in RxTraffic, nd \in NullDerefNow, e \in EotNow :
          IsrRxUpTo(MaxChunks, ch, nd, e)
    \/ RxGetCmdQueued
    \/ \E k \in Sockets : RxGetSocketQueued(k)
    \/ \E k \in Sockets : TailFinalize(k)

\* what the modem sends in the runs that look for the fault handler
FaultTraffic == {ChunkStatus("0"), ChunkCme516, ChunkAppRdy}

\* every way into the fault handler: start-up, invokes and results, data
\* payloads, traffic, the command drain, the wait for the banner, time
NextFault ==
    \/ \E allocated \in BOOLEAN : IopCreate(allocated)
    \/ \E c \in Cmds, nd \in NullDerefNow : TryInvoke(c, FALSE, nd)
    \/ TryInvokeSteps
    \/ \E nd \in NullDerefNow :
          GetResult(DefaultRequest.responseSz, DefaultRequest.timeout,
                    DefaultRequest.func, TRUE, 0, nd)
    \/ \E nd \in NullDerefNow : SendData(TxData(TxBufferSz), nd)
    \/ \E ch \in FaultTraffic, nd \in NullDerefNow, e \in EotNow :
          pc # "create" /\ IsrRx(ch, nd, e)
    \/ RxGetCmdQueued
    \/ AwaitAppReady
    \/ AwaitAppReadyPoll
    \/ Tick

\* unsolicited traffic and the drains
NextUrc ==
    \/ \E ch \in UrcTraffic, nd \in NullDerefNow, e \in EotNow :
          IsrRxUpTo(MaxChunks, ch, nd, e)
    \/ RxGetCmdQueued
    \/ \E k \in Sockets : RxGetSocketQueued(k)

\* the socket drains
NextTail ==
    \/ \E k \in Sockets : RxGetSocketQueued(k)
    \/ \E k \in Sockets : TailFinalize(k)

\* the transmit side: invokes, data payloads, the transmit interrupt, time
NextTx ==
    \/ \E c \in Cmds, nd \in NullDerefNow : TryInvoke(c, FALSE, nd)
    \/ TryInvokeSteps
    \/ \E d \in TxPayloads, nd \in NullDerefNow : SendData(d, nd)
    \/ Transmit
    \/ Tick

\* the transmit ring shared by the two contexts: sends of data step by step,
\* the notice of received data and the transmit-ready interrupt in between
NextDrain ==
    \/ \E d \in DrainPayloads : SendDataEnter(d)
    \/ SendDataSteps
    \/ \E nd \in NullDerefNow, e \in EotNow : IsrRx(ChunkRecv, nd, e)
    \/ Transmit

\* data reassembly in the interrupt handler
NextData ==
    \E ch \in DataTraffic, nd \in NullDerefNow, e \in EotNow :
        IsrRxData(ch, nd, e)

Spec == Init /\ [][NextLock]_vars
SpecRx == Init /\ [][NextRx]_vars
SpecData == Init /\ [][NextData]_vars
SpecTx == Init /\ [][NextTx]_vars
SpecDrain == Init /\ [][NextDrain]_vars
SpecTail == InitPool /\ [][NextTail]_vars
SpecUrc == Init /\ [][NextUrc]_vars
SpecFault == InitCreate /\ [][NextFault]_vars
SpecParse == Init /\ [][NextParse]_vars
SpecRetry == Init /\ [][NextRetry]_vars
SpecResult == Init /\ [][NextResult]_vars

(***************************************************************************)
(* The lock of the action slot.                                            *)
(***************************************************************************)
Locked == actionPtr = "valid" /\ IsLocked(action)

\* C1: while the action is locked, a call tryInvoke(cmd, retry = false)
\* returns false at once and leaves the action, the result window, the
\* receive and transmit state of the I/O processor and the bridge's transmit
\* FIFO as they were.
C1_LockedInvokeFailsClean ==
    [][(Locked /\ \E c \in Cmds : TryInvoke(c, FALSE, "zero"))
       => /\ ret' = Ret("tryInvoke", FALSE)
          /\ pc' = "idle"
          /\ action' = action /\ resp' = resp /\ iop' = iop /\ hwTx' = hwTx]_vars

\* a single-attempt tryInvoke has returned false and the action is still
\* held by the earlier caller
C1_Witness ==
    /\ ret = Ret("tryInvoke", FALSE)
    /\ Locked /\ grants = 1 /\ pc = "idle"

\* C2: two tryInvoke calls, of the application or of the interrupt handler,
\* never both return true without a release of the lock between them.
C2_OneGrantPerRelease == grants <= 1

\* a step that is a call of getResult which returns
GetResultStep ==
    /\ calls' = calls + 1 /\ pc' = pc
    /\ fault' = "none" /\ ret'.op = "getResult"

\* a step that is one pass of the loop of awaitResult
AwaitStep ==
    /\ fault' = "none" /\ rxCount' = rxCount /\ now' = now
    /\ \/ pc = "aw_yield"
       \/ /\ pc = "idle" /\ calls' = calls + 1
          /\ pc' = "aw_yield" \/ (pc' = "idle" /\ ret'.op = "awaitResult")

\* a step that may release the lock: a getResult, alone or within
\* awaitResult, that returns a terminal result, or cancel
ReleaseStep ==
    \/ GetResultStep /\ ret'.val >= ACTION_RESULT_SUCCESS
    \/ AwaitStep /\ pc' = "idle"
    \/ Cancel

\* C3: once tryInvoke has returned true the action stays locked, whatever is
\* received and however often getResult returns Pending; only a getResult
\* that returns a terminal result, or cancel, unlocks it.
C3_LockedUntilTerminal ==
    [][(grants > 0 /\ Locked /\ ~Locked') => ReleaseStep]_vars

\* C10: after cancel the action slot is present and unlocked.
C10_CancelKeepsSlot ==
    ret.op = "cancel" => actionPtr = "valid" /\ ~IsLocked(action)

(***************************************************************************)
(* The retry loop of tryActionLock.                                        *)
(***************************************************************************)
\* the bytes queued for the modem and not yet shifted out
TxStream == hwTx \o iop.txBuf

\* the positions of a tryInvoke that passed the lock test
TiStages == {"ti_lock", "ti_reset", "ti_copy", "ti_send"}

\* C4, as stated: a tryInvoke(cmd, retry = true) that found the action
\* locked, and during whose wait the lock was released, does not return
\* false.
C4_ReleaseGrantsRetry ==
    ~(ret.op = "tryInvokeRetry" /\ ret.val = FALSE /\ ret.relSeen)

\* C4, amended: when a poll of tryInvoke(cmd, retry = true) finds the lock
\* free the call leaves the retry loop to take the lock, and from there it
\* returns only true, holding the lock with cmd and its CR stored in the
\* action and appended to the transmit stream.
C4_FreePollGrantsRetry ==
    /\ [][(TryInvokeWait /\ ~SeesLocked) => (pc' = "ti_lock" /\ call' = call)]_vars
    /\ [][(call.retry /\ pc \in TiStages /\ pc' = "idle")
          => /\ ret' = [op |-> "tryInvokeRetry", val |-> TRUE,
                        relSeen |-> call.relSeen]
             /\ Locked'
             /\ CStr(action'.cmdStr, 0) = call.cmdStr \o <<CR>>
             /\ TxStream' = TxStream \o call.cmdStr \o <<CR>>]_vars

\* a retrying tryInvoke has returned true after the lock was released while
\* it waited
C4_Witness ==
    /\ ret = [op |-> "tryInvokeRetry", val |-> TRUE, relSeen |-> TRUE]
    /\ Locked /\ pc = "idle"

\* the retry counter of a waiting call stays below the budget
RetryBounded == pc = "ti_wait" => call.retryCnt < ACTIONS_RETRY_MAX

\* C5: while the action stays locked, each poll of tryInvoke(cmd, retry =
\* true) either waits the fixed delay and counts one attempt, or, at attempt
\* ACTIONS_RETRY_MAX, returns false; no poll touches the action or the
\* transmit stream, and the attempt count never passes the budget.
C5_RetryBudget ==
    /\ []RetryBounded
    /\ [][(TryInvokeWait /\ SeesLocked)
          => /\ action' = action /\ actionPtr' = actionPtr
             /\ iop' = iop /\ hwTx' = hwTx
             /\ IF call.retryCnt + 1 = ACTIONS_RETRY_MAX
                THEN /\ pc' = "idle"
                     /\ ret'.op = "tryInvokeRetry" /\ ret'.val = FALSE
                ELSE /\ pc' = "ti_wait"
                     /\ call'.retryCnt = call.retryCnt + 1
                     /\ now' = Min(now + ACTIONS_RETRY_INTERVAL, MaxTime)]_vars

\* a retrying tryInvoke has used up its budget and returned false, the
\* action still held by the earlier caller
C5_Witness ==
    /\ ret = [op |-> "tryInvokeRetry", val |-> FALSE, relSeen |-> FALSE]
    /\ Locked /\ grants = 1 /\ pc = "idle"

(***************************************************************************)
(* Result polling.                                                         *)
(***************************************************************************)
\* what the parser installed in action a makes of the text accumulated in
\* the window r
Verdict(a, r) == RunParser(a.cmdCompleteParser_func, CStr(r, 0))

\* the time since the invocation of a exceeds its time-out, at time millis
OverBudget(a, millis) == millis - a.invokedAt > a.timeoutMillis

C7_TimeoutStrictlyAfter ==
    [][(GetResultStep /\ actionPtr = "valid"
        /\ Verdict(action', resp') < ACTION_RESULT_SUCCESS)
       => IF OverBudget(action', now)
          THEN ret'.val = ACTION_RESULT_TIMEOUT /\ ~IsLocked(action')
          ELSE /\ ret'.val = ACTION_RESULT_PENDING
               /\ action'.cmdStr = action.cmdStr]_vars

\* getResult has returned Timeout for an invoked command and released it
C7_Witness ==
    /\ ret = Ret("getResult", ACTION_RESULT_TIMEOUT)
    /\ actionPtr = "valid" /\ CStr(action.cmdStr, 1) = <<"T", CR>>
    /\ ~IsLocked(action) /\ OverBudget(action, now)

\* C8: a getResult whose parser returns a terminal code releases the lock,
\* except that Success with autoClose = false leaves the command buffer as
\* it is; an error code releases the lock whatever autoClose is.
C8_CloseOnTerminal ==
    [][(/\ GetResultStep /\ actionPtr = "valid"
        /\ ret'.val >= ACTION_RESULT_SUCCESS
        /\ ret'.val # ACTION_RESULT_TIMEOUT)
       => \A ac \in BOOLEAN, over \in 0..1 :
             GetResult(DefaultRequest.responseSz, DefaultRequest.timeout,
                       DefaultRequest.func, ac, over, "zero")
             => IF ret'.val = ACTION_RESULT_SUCCESS /\ ~ac
                THEN action'.cmdStr = action.cmdStr
                ELSE ~IsLocked(action')]_vars

\* getResult has returned the error code of the modem and the action, which
\* was invoked, is unlocked
C8_Witness ==
    /\ ret = Ret("getResult", 516)
    /\ actionPtr = "valid" /\ CStr(action.cmdStr, 1) = <<"T", CR>>
    /\ ~IsLocked(action)

\* C9: a pass of awaitResult whose getResult yields a terminal result ends
\* the call with that result, a pass whose getResult yields Pending goes on
\* to the next pass, and a pass made after the time-out budget ends the
\* call: awaitResult never returns Pending.
C9_AwaitReturnsTerminal ==
    /\ [](ret.op = "awaitResult" => ret.val # ACTION_RESULT_PENDING)
    /\ [][(AwaitStep /\ actionPtr = "valid")
          => /\ pc' \in {"idle", "aw_yield"}
             /\ pc' = "idle" => /\ ret'.op = "awaitResult"
                                /\ ret'.val >= ACTION_RESULT_SUCCESS
             /\ Verdict(action', resp') >= ACTION_RESULT_SUCCESS /\ Verdict(action', resp') # Verdict(action, resp)
                => pc' = "idle" /\ ret'.val = Verdict(action', resp')
             /\ OverBudget(action', now) => pc' = "idle"]_vars

\* awaitResult has polled past the time-out of an invoked command and
\* returned Timeout
C9_Witness ==
    /\ ret = Ret("awaitResult", ACTION_RESULT_TIMEOUT)
    /\ actionPtr = "valid" /\ CStr(action.cmdStr, 1) = <<"T", CR>>
    /\ ~IsLocked(action) /\ pc = "idle"

(***************************************************************************)
(* The completion parsers.                                                 *)
(***************************************************************************)
\* the fault preamble occurs in the text at offset at and decimal digits
\* follow it
FaultDigitsAt(at) ==
    /\ at # -1
    /\ IsDigit(CharAt(resp, SkipSpace(resp, at + CME_PREABLE_SZ)))

\* the landmark of the gap parser call is required and absent
LandmarkMissing ==
    /\ call.landmark # <<>> /\ call.landmarkReqd
    /\ StrStr(resp, call.landmark[1], 0) = -1

\* where the gap parser call starts its search for a terminator
GapSearchStart ==
    IF call.landmark = <<>> \/ StrStr(resp, call.landmark[1], 0) = -1 THEN 0
    ELSE LastLandmark(resp, call.landmark[1], StrStr(resp, call.landmark[1], 0))
         + Len(call.landmark[1])

\* C11, as stated: for a text that holds the fault preamble followed by
\* decimal digits, the gap parser without an explicit terminator returns the
\* integer the digits encode.
C11_FaultCodeReturned ==
    (/\ ret.op = "gapParser" /\ call.terminator = <<>>
     /\ FaultDigitsAt(StrStr(resp, CME_PREABLE, 0)))
    => ret.val = StrToL(resp, StrStr(resp, CME_PREABLE, 0) + CME_PREABLE_SZ)

\* C11, amended: when the fault preamble followed by decimal digits occurs
\* at or after the search start, no OK token occurs there, and a required
\* landmark is present, the gap parser without an explicit terminator
\* returns the integer the digits encode, reduced to 16 bits, whether or
\* not the text holds a generic ERROR or FAIL token.
C11_FaultCodeBeforeErrorFail ==
    (/\ ret.op = "gapParser" /\ call.terminator = <<>>
     /\ ~LandmarkMissing
     /\ FaultDigitsAt(StrStr(resp, CME_PREABLE, GapSearchStart))
     /\ StrStr(resp, OK_COMPLETED_STRING, GapSearchStart) = -1)
    => ret.val = StrToL(resp, StrStr(resp, CME_PREABLE, GapSearchStart)
                              + CME_PREABLE_SZ) % 65536

\* the gap parser has returned the fault code of a text that also holds the
\* generic ERROR token
C11_Witness ==
    /\ ret = Ret("gapParser", 516) /\ call.terminator = <<>>
    /\ StrStr(resp, ERROR_COMPLETED_STRING, 0) # -1

\* the terminator the gap parser call looks for: the explicit one, or the
\* OK token
GapTerminator ==
    IF call.terminator = <<>> THEN OK_COMPLETED_STRING ELSE call.terminator[1]

\* the end of the last place at which the landmark of the call occurs in the
\* text, the text start when there is no landmark or it does not occur
LastOccurrenceEnd ==
    IF call.landmark = <<>> \/ StrStr(resp, call.landmark[1], 0) = -1 THEN 0
    ELSE (CHOOSE i \in 0..Len(resp) :
            /\ PrefixAt(resp, i, call.landmark[1])
            /\ \A j \in (i + 1)..Len(resp) : ~PrefixAt(resp, j, call.landmark[1]))
         + Len(call.landmark[1])

\* the gap rule with the landmark ending at offset L
GapRule(L) ==
    IF LandmarkMissing THEN ret.val = ACTION_RESULT_PENDING
    ELSE IF StrStr(resp, GapTerminator, L) # -1
         THEN ret.val = IF StrStr(resp, GapTerminator, L) - L >= call.gap
                        THEN ACTION_RESULT_SUCCESS ELSE ACTION_RESULT_ERROR
    ELSE IF call.terminator # <<>> THEN ret.val = ACTION_RESULT_PENDING
    ELSE /\ ret.val # ACTION_RESULT_SUCCESS
         /\ (/\ StrStr(resp, CME_PREABLE, L) = -1
             /\ StrStr(resp, ERROR_COMPLETED_STRING, L) = -1
             /\ StrStr(resp, FAIL_COMPLETED_STRING, L) = -1)
            => ret.val = ACTION_RESULT_PENDING

TokenLandmarkEnd ==
    LastLandmark(resp, call.landmark, StrStr(resp, call.landmark, 0))
    + Len(call.landmark)

\* the number of delimiter characters in the text at or after offset from
DelimitersFrom(from) ==
    Cardinality({i \in from..(Len(resp) - 1) : resp[i + 1] = call.delim})

\* C13: the token parser returns Success iff the landmark occurs in the text
\* and at least minTokens - 1 delimiter characters occur after its last
\* occurrence; otherwise it returns the code that follows the fault
\* preamble, or Pending when there is no preamble.
C13_TokenRule ==
    ret.op = "tokenParser"
    => IF /\ StrStr(resp, call.landmark, 0) # -1
          /\ DelimitersFrom(TokenLandmarkEnd) >= call.minTokens - 1
       THEN ret.val = ACTION_RESULT_SUCCESS
       ELSE IF StrStr(resp, CME_PREABLE, 0) # -1
            THEN ret.val = StrToL(resp, StrStr(resp, CME_PREABLE, 0)
                                        + CME_PREABLE_SZ) % 65536
       ELSE ret.val = ACTION_RESULT_PENDING

\* the token parser has returned Success for a text that holds no delimiter
C13_SuccessWithoutDelimiter ==
    /\ ret = Ret("tokenParser", ACTION_RESULT_SUCCESS)
    /\ call.minTokens = 2
    /\ DelimitersFrom(0) = 0

\* the token parser has read through the null pointer that strchr returned
C13_NullRead ==
    /\ call.op = "tokenParser" /\ fault = "hardfault"

\* the value is one that action_getResult takes for Pending or for Success
TreatedAsPendingOrSuccess(val) ==
    val < ACTION_RESULT_SUCCESS \/ val = ACTION_RESULT_SUCCESS

\* C14: the value a completion parser (gap, token, ok) returns is Pending,
\* Success, or a code at or above the error threshold; a fault code parsed
\* from the extended preamble is never a value that action_getResult treats
\* as Pending or as Success.
C14_ParserResultDomain ==
    ret.op \in {"gapParser", "tokenParser", "okParser"}
    => /\ \/ ret.val \in {ACTION_RESULT_PENDING, ACTION_RESULT_SUCCESS}
          \/ ret.val >= ACTION_RESULT_ERROR
       /\ (/\ ret.op = "gapParser" /\ call.terminator = <<>>
           /\ ~LandmarkMissing
           /\ FaultDigitsAt(StrStr(resp, CME_PREABLE, GapSearchStart))
           /\ StrStr(resp, OK_COMPLETED_STRING, GapSearchStart) = -1)
          => ~TreatedAsPendingOrSuccess(ret.val)

\* the gap parser has returned the fault code 3 of the text, a value below
\* Success
C14_FaultCodeBelowSuccess ==
    /\ ret = Ret("gapParser", 3) /\ call.terminator = <<>>
    /\ StrStr(resp, CME_PREABLE, 0) # -1

(***************************************************************************)
(* The receive side.                                                       *)
(***************************************************************************)
\* a block of the pool is owned by the command stream
CmdOwnedQueued(io) ==
    \E i \in Slots : io.rxCtrlBlks[i].process = iopProcess_command

\* the step is a call of iop_rxGetCmdQueued
RxGetCmdStep == calls' = calls + 1 /\ ret'.op = "rxGetCmdQueued"

\* C15, as stated: iop_rxGetCmdQueued called while no command fragment is
\* queued returns Incomplete and changes nothing: not the ring cursors, the
\* command cursors, any block, the sockets' flags or the caller's buffer.
C15_EmptyDrainNoEffect ==
    [][(RxGetCmdStep /\ ~CmdOwnedQueued(iop))
       => /\ ret'.val.r = "incomplete"
          /\ iop' = iop
          /\ sockets' = sockets
          /\ resp' = resp]_vars

\* C15, amended: iop_rxGetCmdQueued called while no command fragment is
\* queued returns Incomplete and changes nothing but rxTail, which
\* iop_recvDoWork moves up to rxHead; the command cursors, every block, the
\* sockets' flags and the caller's buffer are unchanged, and a second call
\* finds rxTail at rxHead and changes nothing at all.
C15_EmptyDrainMovesRxTailOnly ==
    [][(RxGetCmdStep /\ ~CmdOwnedQueued(iop))
       => /\ ret'.val.r = "incomplete"
          /\ iop' = [iop EXCEPT !.rxTail = iop.rxHead]
          /\ sockets' = sockets
          /\ resp' = resp]_vars

\* a drain of the empty command queue has returned Incomplete after traffic
\* that left no command fragment, rxTail having caught up with rxHead
C15_Witness ==
    /\ ret = Ret("rxGetCmdQueued", [r |-> "incomplete"])
    /\ ~CmdOwnedQueued(iop)
    /\ rxCount > 0 /\ iop.rxHead # 0 /\ iop.rxTail = iop.rxHead

\* the step took a block away from the command stream
CmdSlotCopied ==
    \E i \in Slots : /\ iop.rxCtrlBlks[i].process = iopProcess_command
                     /\ iop'.rxCtrlBlks[i].process = iopProcess_void

\* C16: iop_rxGetCmdQueued returns Complete only when the call copied at
\* least one command-owned block and no command-owned block remains queued
\* after it; it returns Incomplete whenever no command-owned block is
\* queued, whatever the block at cmdHead holds.
C16_CompleteMeansDrained ==
    [][RxGetCmdStep
       => /\ ret'.val.r = "complete"
             => CmdSlotCopied /\ ~CmdOwnedQueued(iop')
          /\ ~CmdOwnedQueued(iop) => ret'.val.r = "incomplete"]_vars

\* the blocks that hold a data fragment of socket k: the socket the handler
\* asked data for, the text a "+QIRD: " reply
SocketFragments(io, k) ==
    IF k # io.protoDataSocket THEN {}
    ELSE {i \in Slots : /\ IsOccupied(io, i)
                        /\ PrefixAt(io.rxCtrlBlks[i].primBuf, 2, QIRD_HDR)}

\* the arrival mark of the fragment in block i
FragmentMark(io, i) == io.rxCtrlBlks[i].primBuf[Len(io.rxCtrlBlks[i].primBuf)]

\* the fragment of socket k that arrived first of those queued
OldestFragment(io, k) ==
    CHOOSE i \in SocketFragments(io, k) :
        \A j \in SocketFragments(io, k) :
            DigitVal(FragmentMark(io, i)) <= DigitVal(FragmentMark(io, j))

\* the step is a call of iop_rxGetSocketQueued, of iop_tailFinalize
RxGetSocketStep == calls' = calls + 1 /\ ret'.op = "rxGetSocketQueued"
TailFinalizeStep == calls' = calls + 1 /\ ret'.op = "tailFinalize"

\* C17: the data fragments of a socket are yielded by iop_rxGetSocketQueued
\* in the order of their arrival, the oldest queued one first and nothing
\* else; the iop_tailFinalize that follows takes the yielded fragment off
\* the queue, so that it is not yielded again and its block is free.
C17_SocketFifo ==
    [][/\ (/\ RxGetSocketStep /\ ret'.val.r = "data"
           /\ SocketFragments(iop, ret'.val.socketId) # {})
          => ret'.val.data =
                 <<FragmentMark(iop, OldestFragment(iop, ret'.val.socketId))>>
       /\ (/\ TailFinalizeStep /\ ret.op = "rxGetSocketQueued"
           /\ ret.val.r = "data" /\ ret.val.socketId = ret'.val.socketId)
          => \A i \in SocketFragments(iop', ret.val.socketId) :
                 <<FragmentMark(iop', i)>> # ret.val.data]_vars

\* the arrival marks of the command fragments in text, in text order
RECURSIVE CmdMarks(_)
CmdMarks(text) ==
    IF Len(text) < 2 THEN <<>>
    ELSE IF text[1] = "c" THEN <<DigitVal(text[2])>> \o CmdMarks(From(text, 2))
    ELSE CmdMarks(From(text, 1))

\* the arrival marks of the command fragments queued in the pool
QueuedCmdMarks ==
    {DigitVal(iop.rxCtrlBlks[i].primBuf[2]) :
        i \in {j \in Slots : /\ iop.rxCtrlBlks[j].process = iopProcess_command
                             /\ PrefixAt(iop.rxCtrlBlks[j].primBuf, 0, <<"c">>)}}

\* C18: the command fragments are drained by iop_rxGetCmdQueued in the order
\* of their arrival, each once: the text drained so far holds them oldest
\* first, and every fragment still queued arrived after all of those drained,
\* whatever other traffic came in between and wherever the ring wrapped.
C18_CmdFifo ==
    /\ \A i, j \in 1..Len(CmdMarks(resp)) :
           i < j => CmdMarks(resp)[i] < CmdMarks(resp)[j]
    /\ \A q \in QueuedCmdMarks :
           \A i \in 1..Len(CmdMarks(resp)) : CmdMarks(resp)[i] < q

(***************************************************************************)
(* Data reassembly.                                                        *)
(***************************************************************************)
\* the place in the history of the first chunk that starts with the header
\* hdr, nothing but "recv" notices having come before it; 0 when there is
\* none
DataHeaderAt(hdr) ==
    IF \E h \in 1..Len(wire) : /\ PrefixAt(wire[h], 2, hdr)
                               /\ \A j \in 1..(h - 1) : wire[j] = ChunkRecv
    THEN CHOOSE h \in 1..Len(wire) : /\ PrefixAt(wire[h], 2, hdr)
                                     /\ \A j \in 1..(h - 1) : wire[j] = ChunkRecv
    ELSE 0

\* the length that the sized-read header chunk declares, and the bytes of
\* data that the chunk itself holds
DeclaredLen(chunk) == StrToL(chunk, Len(QIRD_HDR) + 2)
HeaderPayload(chunk) == Len(chunk) - (StrToLEnd(chunk, Len(QIRD_HDR) + 2) + 2)

\* the bytes in the chunks of the history after place h
RECURSIVE BytesAfter(_)
BytesAfter(h) ==
    IF h >= Len(wire) THEN 0 ELSE Len(wire[h + 1]) + BytesAfter(h + 1)

\* the bytes of data received for the sized read whose header is at place h
Cumulative(h) == HeaderPayload(wire[h]) + BytesAfter(h)

\* C19: after a sized-read header that declares a length N above the
\* capacity of the primary buffer, the block holds one extension buffer of
\* N bytes, the data mode is "N more bytes awaited" and the block is not
\* dataReady while fewer than N bytes of data have been received for it;
\* it is dataReady once N bytes have been received.
C19_SizedReassembly ==
    (/\ fault = "none" /\ DataHeaderAt(QIRD_HDR) # 0
     /\ DeclaredLen(wire[DataHeaderAt(QIRD_HDR)]) > PrimBufIrdCap)
    => \E i \in Slots :
          /\ iop.rxCtrlBlks[i].primBuf = wire[DataHeaderAt(QIRD_HDR)]
          /\ Cumulative(DataHeaderAt(QIRD_HDR))
                 < DeclaredLen(wire[DataHeaderAt(QIRD_HDR)])
             => /\ iop.rxCtrlBlks[i].extsnBufHead # NullPtr
                /\ Len(iop.rxCtrlBlks[i].extsnBuf)
                       = DeclaredLen(wire[DataHeaderAt(QIRD_HDR)])
                /\ iop.protoDataMode = "irdBytes"
                /\ ~iop.rxCtrlBlks[i].dataReady
          /\ Cumulative(DataHeaderAt(QIRD_HDR))
                 = DeclaredLen(wire[DataHeaderAt(QIRD_HDR)])
             => iop.rxCtrlBlks[i].dataReady

\* the chunk ends with the phrase that terminates a subscription message
EndsMessage(chunk) ==
    /\ Len(chunk) >= Len(MQTT_TERM)
    /\ PrefixAt(chunk, Len(chunk) - Len(MQTT_TERM), MQTT_TERM)

\* C20: after the first chunk of a subscription message and the chunks that
\* follow it, the block of the message is dataReady and the data mode idle
\* when the last chunk is the first one to end with the terminating phrase;
\* while no chunk has ended with the phrase the block is not dataReady and
\* the data mode still is "end phrase awaited".
C20_EndPhraseReassembly ==
    (fault = "none" /\ DataHeaderAt(QMTRECV_HDR) # 0)
    => \E i \in Slots :
          /\ iop.rxCtrlBlks[i].primBuf = wire[DataHeaderAt(QMTRECV_HDR)]
          /\ (\A j \in DataHeaderAt(QMTRECV_HDR)..Len(wire) :
                  ~EndsMessage(wire[j]))
             => /\ ~iop.rxCtrlBlks[i].dataReady
                /\ iop.protoDataMode = "eotPhrase"
          /\ (/\ EndsMessage(wire[Len(wire)])
              /\ \A j \in DataHeaderAt(QMTRECV_HDR)..(Len(wire) - 1) :
                     ~EndsMessage(wire[j]))
             => /\ iop.rxCtrlBlks[i].dataReady
                /\ iop.protoDataMode = "idle"

(***************************************************************************)
(* Faults.                                                                 *)
(***************************************************************************)
\* every block of the pool is occupied
PoolFull(io) == \A i \in Slots : IsOccupied(io, i)

\* the step is a receive interrupt
IsrRxStep == rxCount' = rxCount + 1

\* the scan of rxOpenCtrlBlock would find no free block
NoFreeBlock(io) == ScanFree(io, io.rxHead) = NullPtr

\* C21: a receive interrupt that has to open a control block while every
\* block of the pool is occupied ends in the fault handler; no block is
\* written and the chunk is not dropped without that signal.
C21_PoolExhaustionFaults ==
    [][(IsrRxStep /\ iop.protoDataMode = "idle" /\ PoolFull(iop))
       => /\ fault' = "fault"
          /\ iop'.rxCtrlBlks = iop.rxCtrlBlks]_vars

\* the fault handler has run with the pool full and no drain called
C21_Witness ==
    /\ fault = "fault" /\ PoolFull(iop) /\ ret = NoRet
    /\ rxCount > RxCtrlBlkCount

\* the room left in the transmit ring
TxRoom == TxBufferSz - Len(iop.txBuf)

\* the step is a call of action_sendData
SendDataStep == calls' = calls + 1 /\ pc = "idle" /\ pc' = "idle"

\* the step is the iop_txSend of an invoke
InvokeSendStep == pc = "ti_send" /\ (pc' = "idle" \/ fault' = "fault")

\* what a send of data does to the fault state and to the bytes under way
TxSendOutcome(data) ==
    /\ fault' = "fault" <=> Len(data) > TxRoom
    /\ fault' = "none" => hwTx' \o iop'.txBuf = TxStream \o data

\* C22: iop_txSend ends in the fault handler exactly when the transmit ring
\* takes fewer bytes than were given to it; when it returns without a fault
\* all the bytes are under way behind the earlier ones, in the given order.
C22_TxSendAllOrFault ==
    [][/\ InvokeSendStep => TxSendOutcome(CStr(action.cmdStr, 0))
       /\ \A d \in TxPayloads :
              (SendDataStep /\ SendData(d, "zero")) => TxSendOutcome(d)]_vars

\* a payload was refused by a ring that had room for a part of it
C22_Witness ==
    /\ fault = "fault" /\ Len(iop.txBuf) = TxBufferSz
    /\ ret.op = "sendData"

\* C29 (as the code has it): action_sendData writes the payload to the
\* transmit ring, sets the completion parser to the ok parser and sets the
\* time stamp of the action to the time of the call.
C29_SendDataRestartsClock ==
    [][\A d \in TxPayloads :
           (SendDataStep /\ SendData(d, "zero") /\ actionPtr = "valid")
           => /\ action'.cmdCompleteParser_func = "ok"
              /\ action'.invokedAt = now
              /\ fault' = "none" => hwTx' \o iop'.txBuf = TxStream \o d]_vars

\* C29 (as stated): action_sendData leaves the time stamp of the action as
\* the invoke set it.
C29_SendDataKeepsTimestamp ==
    [][\A d \in TxPayloads :
           (SendDataStep /\ SendData(d, "zero") /\ actionPtr = "valid")
           => action'.invokedAt = action.invokedAt]_vars

\* data was sent later than the invoke it follows
C29_Witness ==
    /\ ret.op = "sendData" /\ fault = "none"
    /\ action.cmdStr # <<>> /\ action.invokedAt = now /\ now > 0
    /\ action.cmdCompleteParser_func = "ok"

(***************************************************************************)
(* Unsolicited traffic.                                                    *)
(***************************************************************************)
\* the block the receive interrupt of this step has filled
RxBlock == iop'.rxCtrlBlks[iop'.rxHead]

\* the step is a receive interrupt that read an unsolicited status message
\* into a block of its own
StatusArrives ==
    /\ IsrRxStep /\ iop.protoDataMode = "idle" /\ ~NoFreeBlock(iop)
    /\ PrefixAt(RxBlock.primBuf, 2, QIURC_HDR)
    /\ ~PrefixAt(RxBlock.primBuf, 2, URC_IPRECV_HDR)

\* C23: a status message that arrives while the status mailbox is empty is
\* copied to the mailbox (from byte QIURC_HDRSZ of the chunk on) and its block
\* is released; one that arrives while the mailbox holds a message ends in
\* the fault handler and the message in the mailbox stays.
C23_StatusMailbox ==
    [][StatusArrives
       => IF iop.urcStateMsg = <<>>
          THEN /\ fault' = "none"
               /\ iop'.urcStateMsg = From(RxBlock.primBuf, Len(QIURC_HDR))
               /\ iop'.urcStateMsg # <<>>
               /\ ~IsOccupied(iop', iop'.rxHead)
          ELSE /\ fault' = "fault"
               /\ iop'.urcStateMsg = iop.urcStateMsg]_vars

\* a second status message was refused and the first is in the mailbox
C23_Witness ==
    /\ fault = "fault" /\ pc = "idle"
    /\ iop.urcStateMsg # <<>>
    /\ PrefixAt(iop.rxCtrlBlks[iop.rxHead].primBuf, 2, QIURC_HDR)
    /\ iop.urcStateMsg # From(iop.rxCtrlBlks[iop.rxHead].primBuf, Len(QIURC_HDR))

(***************************************************************************)
(* The ways into the fault handler.                                        *)
(***************************************************************************)
\* the step enters the fault handler
FaultRaised == fault = "none" /\ fault' = "fault"

\* iop_txSend was given more than the transmit ring has room for
TxOverflow ==
    \/ InvokeSendStep /\ Len(CStr(action.cmdStr, 0)) > TxRoom
    \/ /\ SendDataStep /\ SendData(TxData(TxBufferSz), "zero")
       /\ TxBufferSz > TxRoom

\* the receive interrupt found no free control block
PoolExhausted == IsrRxStep /\ iop.protoDataMode = "idle" /\ NoFreeBlock(iop)

\* the walk of iop_rxGetCmdQueued came round to cmdTail
BadTraversal == pc = "idle" /\ calls' = calls + 1 /\ RxGetCmdQueued

\* a status message met a message in the mailbox
MailboxOverflow == StatusArrives /\ iop.urcStateMsg # <<>>

\* calloc gave iop_create no structure
AllocFailure == pc = "create"

\* a pass of the loop of iop_awaitAppReady
AwaitAppReadyStep ==
    /\ rxCount' = rxCount /\ now' = now /\ qbgReadyState # "appReady"
    /\ \/ pc = "rdy_yield"
       \/ pc = "idle" /\ pc' = "rdy_yield"

\* the time iop_awaitAppReady has waited is above QBG_APPREADY_MILLISMAX
AppReadyOverdue ==
    pc = "rdy_yield" /\ call.apprdyWaitStart + QBG_APPREADY_MILLISMAX < now

\* a tryInvoke that finds the action locked
ContendedInvoke ==
    /\ pc = "idle" /\ calls' = calls + 1 /\ Locked
    /\ \E c \in Cmds : TryInvoke(c, FALSE, "zero")

\* C24 (as stated): the fault handler is entered only on a transmit
\* overflow, with the receive pool exhausted, on a walk of the command ring
\* that comes round, on an overflow of the status mailbox or when iop_create
\* got no memory.
C24_FaultOrigins ==
    [][FaultRaised
       => \/ TxOverflow \/ PoolExhausted \/ BadTraversal
          \/ MailboxOverflow \/ AllocFailure]_vars

\* C24 (as the code has it): the fault handler is entered from the five
\* conditions above and from iop_awaitAppReady, which enters it whenever the
\* banner is still missing after QBG_APPREADY_MILLISMAX; a tryInvoke that
\* finds the action locked and a getResult, whatever it returns, do not.
C24_FaultOriginsWithStartWait ==
    [][/\ FaultRaised
          => \/ TxOverflow \/ PoolExhausted \/ BadTraversal
             \/ MailboxOverflow \/ AllocFailure
             \/ AwaitAppReadyStep /\ AppReadyOverdue
       /\ (AwaitAppReadyStep /\ AppReadyOverdue) => fault' = "fault"
       /\ ContendedInvoke => fault' = "none" /\ ret' = Ret("tryInvoke", FALSE)
       /\ (calls' = calls + 1 /\ pc' = pc /\ GetResult(DefaultRequest.responseSz,
               DefaultRequest.timeout, DefaultRequest.func, TRUE, 0, "zero"))
          => fault' = "none" /\ ret'.op = "getResult"]_vars

\* the wait for the banner ended in the fault handler, nothing having been
\* received
C24_Witness ==
    /\ fault = "fault" /\ pc = "rdy_yield"
    /\ call.apprdyWaitStart + QBG_APPREADY_MILLISMAX < now
    /\ rxCount = 0

(***************************************************************************)
(* The "recv" notice and the sized read it asks for.                       *)
(***************************************************************************)
\* the sized-read request of socket k as action_tryInvoke sends it
IrdRequest(k) == IrdCmd(k) \o <<CR>>

\* str ends with tail
EndsWith(str, tail) ==
    /\ Len(str) >= Len(tail)
    /\ SubSeq(str, Len(str) - Len(tail) + 1, Len(str)) = tail

\* the step is the receive interrupt of a "recv" notice of socket 0
NoticeStep ==
    /\ IsrRxStep /\ iop.protoDataMode = "idle" /\ ~NoFreeBlock(iop)
    /\ \E e \in EotNow : IsrRxUpTo(MaxChunks, ChunkRecv, "zero", e)

\* C25: every "recv" notice of a socket has the sized-read request of that
\* socket written to the transmit ring: by the notice's own dispatch when the
\* action is free (a transmit overflow apart), and, when the action is locked
\* by another command, by the step that clears the lock.
C25_NoticeAlwaysRequests ==
    [][/\ (NoticeStep /\ ~Locked /\ fault' = "none")
          => EndsWith(hwTx' \o iop'.txBuf, IrdRequest(0))
       /\ \A k \in Sockets :
             (/\ pc = "idle" /\ Locked /\ ~Locked'
              /\ iop.protoDataSocket = k /\ action.cmdStr # IrdRequest(k))
             => EndsWith(hwTx' \o iop'.txBuf, IrdRequest(k))]_vars

\* the step is the receive interrupt of a "+QIRD: " reply that carries data
DataArrives ==
    /\ IsrRxStep /\ iop.protoDataMode = "idle" /\ ~NoFreeBlock(iop)
    /\ iop.protoDataSocket \in Sockets
    /\ PrefixAt(RxBlock.primBuf, 2, QIRD_HDR) /\ RxBlock.primDataSz > 0

\* C26: after the dispatch of a "recv" notice of socket k the notice's block
\* is free and socketTail[k] names the block that then receives the data of
\* the sized read, so that iop_rxGetSocketQueued(k) yields those data with no
\* iop_tailFinalize in between.
C26_TailNamesPayloadBlock ==
    [][/\ NoticeStep => ~IsOccupied(iop', iop'.rxHead)
       /\ DataArrives => iop'.rxHead = iop.socketTail[iop.protoDataSocket]
       /\ (RxGetSocketStep /\ SocketFragments(iop, ret'.val.socketId) # {})
          => /\ ret'.val.r = "data"
             /\ \E i \in SocketFragments(iop, ret'.val.socketId) :
                    ret'.val.data = <<FragmentMark(iop, i)>>]_vars

\* the step is the receive interrupt of a "+QIRD: " reply that declares no
\* data
EmptyArrives ==
    /\ IsrRxStep /\ iop.protoDataMode = "idle" /\ ~NoFreeBlock(iop)
    /\ RxBlock.primBuf = IrdEmpty

\* C27: a "+QIRD: 0" reply puts the data mode to idle and frees its block;
\* no extension buffer is allocated, the heads and tails of the sockets and
\* of the command stream, the sockets' data flags and the caller's buffer
\* stay as they were.
C27_EmptyReplyIsSentinel ==
    [][EmptyArrives
       => /\ fault' = "none"
          /\ iop'.protoDataMode = "idle"
          /\ ~IsOccupied(iop', iop'.rxHead)
          /\ RxBlock.extsnBufHead = NullPtr
          /\ iop'.socketHead = iop.socketHead
          /\ iop'.socketTail = iop.socketTail
          /\ iop'.cmdHead = iop.cmdHead /\ iop'.cmdTail = iop.cmdTail
          /\ sockets' = sockets /\ resp' = resp]_vars

\* an empty reply has been received after a notice and the read is closed
C27_Witness ==
    /\ fault = "none" /\ rxCount >= 2
    /\ iop.rxCtrlBlks[iop.rxHead].primBuf = IrdEmpty
    /\ ~IsOccupied(iop, iop.rxHead)
    /\ iop.protoDataSocket = iopProcess_void /\ iop.protoDataMode = "idle"

\* the step is the receive interrupt of the "APP RDY" banner
BannerArrives ==
    /\ IsrRxStep /\ iop.protoDataMode = "idle" /\ ~NoFreeBlock(iop)
    /\ RxBlock.primBuf = ChunkAppRdy

\* C28: the first "APP RDY" banner sets the ready state to appReady and
\* frees its block; once appReady, the state stays appReady in every step, a
\* further banner included.
C28_AppReadyLatch ==
    [][/\ (BannerArrives /\ qbgReadyState # "appReady")
          => qbgReadyState' = "appReady" /\ ~IsOccupied(iop', iop'.rxHead)
       /\ qbgReadyState = "appReady" => qbgReadyState' = "appReady"
       /\ qbgReadyState' # qbgReadyState => BannerArrives]_vars

\* a second banner has arrived with the state latched
C28_Witness ==
    /\ qbgReadyState = "appReady" /\ fault = "none"
    /\ \E i, j \in Slots :
          /\ i # j
          /\ iop.rxCtrlBlks[i].primBuf = ChunkAppRdy
          /\ iop.rxCtrlBlks[j].primBuf = ChunkAppRdy

\* the blocks that hold the data of a sized read
DataBlocks(io) ==
    {i \in Slots : /\ IsOccupied(io, i)
                   /\ PrefixAt(io.rxCtrlBlks[i].primBuf, 2, QIRD_HDR)
                   /\ io.rxCtrlBlks[i].primDataSz > 0}

\* C30: the block that receives the data of a sized read belongs to the
\* socket the read was for, and stays that socket's in every step until a
\* drain of the socket resets it; it is never made a block of the command
\* stream and cmdHead is never set to it.
C30_DataBlockKeepsSocket ==
    [][/\ DataArrives
          => /\ RxBlock.process = iop.protoDataSocket
             /\ iop'.cmdHead = iop.cmdHead
       /\ \A i \in DataBlocks(iop) :
             (iop.rxCtrlBlks[i].process \in Sockets /\ ~RxGetSocketStep)
             => iop'.rxCtrlBlks[i].process = iop.rxCtrlBlks[i].process]_vars

(***************************************************************************)
(* Continuation chunks and extension buffers.                              *)
(***************************************************************************)
\* the step is a receive interrupt in the mode "N more bytes awaited", the
\* chunk not longer than the bytes awaited
CountedChunkArrives ==
    /\ IsrRxStep /\ fault' = "none"
    /\ iop.protoDataMode = "irdBytes" /\ iop.protoDataBytes > 0
    /\ Len(wire'[Len(wire')]) <= iop.protoDataBytes

\* C31: in the mode "N more bytes awaited" a received chunk takes its length
\* off the count and goes to the block the mode names; the mode is idle
\* after the chunk exactly when the count has come to zero, and until then
\* the mode and the block stay.
C31_CountDown ==
    [][CountedChunkArrives
       => /\ iop'.protoDataBytes = iop.protoDataBytes - Len(wire'[Len(wire')])
          /\ iop'.protoDataMode = "idle" <=> iop'.protoDataBytes = 0
          /\ iop'.protoDataMode # "idle"
             => /\ iop'.protoDataMode = "irdBytes"
                /\ iop'.protoDataRxCtrlBlk = iop.protoDataRxCtrlBlk]_vars

\* C32: a free block holds no extension buffer and is not dataReady; no
\* block has more than one extension buffer calloc'ed and not freed, and a
\* free block has none: what was allocated for a block is freed by its
\* reset.
C32_ExtensionOwnedAndFreed ==
    \A i \in Slots :
        /\ iop.rxCtrlBlks[i].extsnLive <= 1
        /\ ~IsOccupied(iop, i)
           => /\ iop.rxCtrlBlks[i].extsnBufHead = NullPtr
              /\ ~iop.rxCtrlBlks[i].dataReady
              /\ iop.rxCtrlBlks[i].extsnLive = 0

(***************************************************************************)
(* The socket drains.                                                      *)
(***************************************************************************)
\* the steps from index a to index b in ring order
RingDist(a, b) == (b - a + RxCtrlBlkCount) % RxCtrlBlkCount

\* the blocks of socket k behind its tail, up to its head
OwnedAhead(io, k) ==
    {i \in Slots :
        /\ RingDist(io.socketTail[k], i) >= 1
        /\ RingDist(io.socketTail[k], i)
               <= RingDist(io.socketTail[k], io.socketHead[k])
        /\ IsOccupied(io, i) /\ io.rxCtrlBlks[i].process = k}

\* where iop_tailFinalize(k) is to leave the tail of socket k
TailDue(io, k) ==
    IF OwnedAhead(io, k) = {} THEN io.socketHead[k]
    ELSE CHOOSE i \in OwnedAhead(io, k) :
             \A j \in OwnedAhead(io, k) :
                 RingDist(io.socketTail[k], i) <= RingDist(io.socketTail[k], j)

\* C33: iop_tailFinalize(k) frees the block at the tail of socket k and
\* leaves the tail at the next block in ring order, up to the socket's head,
\* that is occupied and owned by k, at the head when there is none; no other
\* block and nothing else of the I/O processor changes.
C33_TailFinalize ==
    [][TailFinalizeStep
       => \A k \in {ret'.val.socketId} :
             /\ ~IsOccupied(iop', iop.socketTail[k])
             /\ iop'.socketTail[k] = TailDue(iop, k)
             /\ \A i \in Slots \ {iop.socketTail[k]} :
                    iop'.rxCtrlBlks[i] = iop.rxCtrlBlks[i]
             /\ [iop' EXCEPT !.rxCtrlBlks = iop.rxCtrlBlks,
                             !.socketTail = iop.socketTail] = iop]_vars

\* the tail of socket 0 stands at a block of the socket short of the head,
\* behind the block that was freed
C33_Witness ==
    /\ ret = Ret("tailFinalize", [socketId |-> 0])
    /\ iop.socketTail[0] # iop.socketHead[0]
    /\ IsOccupied(iop, iop.socketTail[0])
    /\ iop.rxCtrlBlks[iop.socketTail[0]].process = 0
    /\ \E i \in Slots : /\ RingDist(i, iop.socketTail[0]) = 1
                        /\ ~IsOccupied(iop, i)


(***************************************************************************)
(* C34: order of the bytes handed to the bridge.                           *)
(***************************************************************************)
\* the bytes queued for the modem and not yet shifted out, in the order of
\* their cbuf_push: in the bridge's FIFO, in the local buffer of a
\* txSendChunk in progress, in the ring
TxPending == hwTx \o call.txData \o iop.txBuf

\* the bridge shifts its FIFO out
ShiftStep == hwTx # <<>> /\ hwTx' = <<>> /\ iop' = iop /\ call' = call

\* C34: the bytes reach the bridge in the order they were queued, each once,
\* under every interleaving of the interrupt handler with a send in normal
\* context: a step only removes bytes at the front of the pending bytes, by
\* the bridge's shifter, and only adds bytes behind them
C34_TxOrder ==
    [][fault' = "none" =>
         LET kept == IF ShiftStep THEN From(TxPending, Len(hwTx)) ELSE TxPending
         IN Take(hwTx' \o call'.txData \o iop'.txBuf, Len(kept)) = kept]_vars


(***************************************************************************)
(* C35: a socket's drain touches the socket's own blocks only.             *)
(***************************************************************************)
SocketQueuedStep == calls' = calls + 1 /\ ret'.op = "rxGetSocketQueued"

\* C35: iop_rxGetSocketQueued(s) yields data only from a block tagged with
\* socket s whose dataReady flag is set, nothing when the block at the
\* socket's tail is free or belongs to the command stream or another socket;
\* iop_tailFinalize(s) resets no block that belongs to another stream
C35_SocketOwnsSlot ==
    [][/\ SocketQueuedStep =>
            \A k \in {ret'.val.socketId} :
                LET blk == iop.rxCtrlBlks[iop.socketTail[k]]
                IN /\ ret'.val.r = "data" => blk.process = k /\ blk.dataReady
                   /\ blk.process # k =>
                          ret'.val.r = "incomplete" /\ ret'.val.sz = 0
       /\ TailFinalizeStep =>
            \A k \in {ret'.val.socketId}, i \in Slots :
                IsOccupied(iop, i) /\ iop'.rxCtrlBlks[i] # iop.rxCtrlBlks[i]
                    => iop.rxCtrlBlks[i].process = k]_vars


(***************************************************************************)
(* C36: the target of continuation chunks.                                 *)
(***************************************************************************)
\* C36: whenever protoDataMode is not idle, protoDataRxCtrlBlk is the index
\* of an occupied control block that holds an extension buffer
C36_ContinuationTarget ==
    iop.protoDataMode # "idle" =>
        /\ iop.protoDataRxCtrlBlk \in Slots
        /\ IsOccupied(iop, iop.protoDataRxCtrlBlk)
        /\ iop.rxCtrlBlks[iop.protoDataRxCtrlBlk].extsnBufHead # NullPtr


(***************************************************************************)
(* C37: continuation chunks stay inside the extension buffer.              *)
(***************************************************************************)
\* a continuation chunk is stored through the tail of an extension buffer
ContinuationArrives ==
    /\ IsrRxStep /\ fault' = "none"
    /\ iop.protoDataMode # "idle" /\ iop.protoDataRxCtrlBlk \in Slots
    /\ iop.rxCtrlBlks[iop.protoDataRxCtrlBlk].extsnBufTail # NullPtr

\* C37: a continuation chunk is written inside the allocated extension
\* buffer: head <= tail and tail + chunk length <= head + allocated size when
\* the chunk is stored; and the length iop_rxGetSocketQueued reports for a
\* block with an extension buffer never exceeds the allocated size
C37_WithinExtension ==
    [][/\ ContinuationArrives =>
            LET blk == iop.rxCtrlBlks[iop.protoDataRxCtrlBlk]
            IN /\ blk.extsnBufHead <= blk.extsnBufTail
               /\ blk.extsnBufTail + Len(wire'[Len(wire')])
                      <= blk.extsnBufHead + Len(blk.extsnBuf)
       /\ \A i \in Slots :
             iop.rxCtrlBlks[i].extsnBufHead # NullPtr =>
                 SocketData(iop.rxCtrlBlks[i]).sz <= Len(iop.rxCtrlBlks[i].extsnBuf)]_vars


(***************************************************************************)
(* C38: rxOpenCtrlBlock and the free blocks.                               *)
(***************************************************************************)
\* the handler stopped in rxOpenCtrlBlock: the fault is raised before any
\* store of the handler
OpenFaults == fault' = "fault" /\ iop' = iop /\ action' = action

\* C38: rxOpenCtrlBlock signals the exhaustion of the pool only when every
\* block is occupied; while a block is free, the block at rxHead included,
\* a first chunk is read into a block that was free, the new rxHead
C38_OpensFreeBlock ==
    [][(IsrRxStep /\ iop.protoDataMode = "idle") =>
          /\ OpenFaults => PoolFull(iop)
          /\ ~PoolFull(iop) => ~IsOccupied(iop, iop'.rxHead)]_vars


(***************************************************************************)
(* C39: bookkeeping of the result window.                                  *)
(***************************************************************************)
\* C39: while a result window is installed, (resultTail - resultHead) plus
\* the remaining capacity resultSz equals the responseSz installed on the
\* first call, and resultTail never passes resultHead + responseSz
C39_WindowExact ==
    (actionPtr = "valid" /\ action.resultHead # NullPtr) =>
        /\ (action.resultTail - action.resultHead) + action.resultSz = Len(resp)
        /\ action.resultTail <= action.resultHead + Len(resp)


(***************************************************************************)
(* C40: the lock the interrupt handler takes for its sized read.           *)
(***************************************************************************)
\* the action is locked by the request the interrupt handler issued itself
LockedByRequest == Locked /\ \E k \in Sockets : action.cmdStr = IrdRequest(k)

\* C40: the lock requestProtoData takes by its own action_tryInvoke is
\* released when the reply to the sized read, with data or empty, has been
\* classified, no caller polling action_getResult for it
C40_ReplyReleasesLock ==
    [][((DataArrives \/ EmptyArrives) /\ fault' = "none" /\ LockedByRequest)
          => ~(actionPtr' = "valid" /\ IsLocked(action'))]_vars

=============================================================================
